---- MODULE Spec2Model ----
(***************************************************************************)
(* Recommendation deduplication and parallel batch analysis engine of      *)
(* APICoachEjecutivo: BatchProcessor, SimilarityService,                    *)
(* RecommendationMemoryStore and MemoryResetService.                       *)
(*                                                                         *)
(* The specifications share the variables of this module, one per          *)
(* component; each leaves the other components' variables unchanged.        *)
(*   SpecBatch  - app/services/batch_processor.py                          *)
(*   SpecDivide - BatchProcessor.divide_into_batches on its own            *)
(*   SpecConsolidate - BatchProcessor.consolidate_results on any results   *)
(*   SpecSim    - app/services/similarity_service.py                       *)
(*   SpecStore  - app/services/recommendation_memory_store.py (storing)    *)
(*   SpecHistory - the same with get_historical_recommendations            *)
(*   SpecWorkers - store_recommendation beside other workers' stores       *)
(*   SpecReset  - app/services/memory_reset_service.py + api/routes.py     *)
(***************************************************************************)
EXTENDS Integers, Sequences, FiniteSets, TLC

VARIABLES
    \* ---- BatchProcessor ----
    config,        \* BatchConfig: batch_size, max_parallel_batches, enable_parallel
    batches,       \* the list of batches handed to process_batches_async
    mainPc,        \* position of process_batches_async / its caller
    pc,            \* per batch task: "pending", "running", "finished", "done"
    semaphore,     \* free permits of asyncio.Semaphore(max_parallel_batches)
    seqIdx,        \* loop index of _process_batches_sequential (1-indexed)
    calls,         \* per batch: the (batch_data, batch_num) process_fn was called with
    fnOutcome,     \* per batch: what process_fn did (returned payload / raised)
    taskResult,    \* per batch: the value its coroutine returned
    finishOrder,   \* the batches in the order their process_fn finished
    results,       \* the list process_batches_async returns
    consolidated,  \* the dict consolidate_results returns
    \* ---- BatchProcessor.divide_into_batches ----
    dvData,        \* the list handed to divide_into_batches
    dvSize,        \* config.batch_size
    dvBatches,     \* the list of batches it returned
    dvPc,          \* "input", "divided"
    \* ---- SimilarityService ----
    simCfg,        \* _similarity_threshold (as a fraction) and _cooldown_days
    newRecs,       \* new_recommendations
    history,       \* historical_recommendations
    simPc,         \* "input", "checked", "filtered"
    checkOut,      \* result of check_recommendation_similarity(newRecs[1], history)
    filterOut,     \* result of filter_recommendations(newRecs, history)
    \* ---- SimilarityService.cosine_similarity ----
    csVec1,        \* vec1
    csVec2,        \* vec2
    csPc,          \* "input", "computed"
    csOut,         \* the value it returned or that it raised
    \* ---- RecommendationMemoryStore.store_recommendation ----
    stPc,          \* "idle", "insert", "sleep", "returned", "raised"
    stArgs,        \* executive_id, client_id, recommendation_text, metadata
    stAttempt,     \* loop variable attempt (0-based)
    stInserts,     \* outcomes of the insert_one attempts made, in order
    stSleeps,      \* the waits made (seconds), in order
    stEmbedCalls,  \* number of generate_embedding calls
    stResult,      \* returned id or raised error
    stCalls,       \* number of store_recommendation calls made so far
    stNow,         \* the clock (seconds)
    stDoc,         \* the document built before the retry loop
    collection,    \* documents of memory_embeddings, in insertion order
    \* ---- RecommendationMemoryStore.get_historical_recommendations ----
    ghPc,          \* "idle", "done"
    ghCall,        \* executive_id, client_id, days_back, limit and the time of the call
    ghOut,         \* the list it returned or the error it raised
    \* ---- the check-then-store path of the parallel workers ----
    ptCfg,         \* similarity threshold and cooldown_days
    ptCollection,  \* documents of memory_embeddings, in insertion order
    ptNew,         \* per worker: the text of its new recommendation
    ptPc,          \* per worker: "start", "checked", "stored", "filtered", "failed"
    ptHist,        \* per worker: the history it fetched
    ptCheck,       \* per worker: the result of its similarity check
    \* ---- MemoryResetService ----
    memory,        \* documents of memory_embeddings: executive_id, client_id, timestamp
    rsPc,          \* "idle", "done" ("raised" if a storage error escaped)
    rsCall,        \* arguments of the last check_and_reset_if_needed call
    rsResult,      \* the dict it returned
    rsTrace        \* what the call did on storage: reads, deletes, evicted groups

batchVars == <<config, batches, mainPc, pc, semaphore, seqIdx, calls, fnOutcome,
               taskResult, finishOrder, results, consolidated>>
divVars   == <<dvData, dvSize, dvBatches, dvPc>>
simVars   == <<simCfg, newRecs, history, simPc, checkOut, filterOut>>
cosVars   == <<csVec1, csVec2, csPc, csOut>>
storeVars == <<stPc, stArgs, stAttempt, stInserts, stSleeps, stEmbedCalls, stResult,
               stCalls, stNow, stDoc, collection, ghPc, ghCall, ghOut>>
pathVars  == <<ptCfg, ptCollection, ptNew, ptPc, ptHist, ptCheck>>
resetVars == <<memory, rsPc, rsCall, rsResult, rsTrace>>
vars      == <<batchVars, divVars, simVars, cosVars, storeVars, pathVars, resetVars>>

\* each component's steps leave the other components alone
BatchFrame == UNCHANGED <<divVars, simVars, cosVars, storeVars, pathVars, resetVars>>

DivideFrame == UNCHANGED <<batchVars, simVars, cosVars, storeVars, pathVars, resetVars>>

SimFrame == UNCHANGED <<batchVars, divVars, cosVars, storeVars, pathVars, resetVars>>

CosineFrame == UNCHANGED <<batchVars, divVars, simVars, storeVars, pathVars, resetVars>>

StoreFrame == UNCHANGED <<batchVars, divVars, simVars, cosVars, pathVars, resetVars>>

PathFrame == UNCHANGED <<batchVars, divVars, simVars, cosVars, storeVars, resetVars>>

ResetFrame == UNCHANGED <<batchVars, divVars, simVars, cosVars, storeVars, pathVars>>

None == "None"

(***************************************************************************)
(* Generic helpers                                                         *)
(***************************************************************************)
Range(s) == {s[i] : i \in 1..Len(s)}

Min(a, b) == IF a <= b THEN a ELSE b

Max(a, b) == IF a >= b THEN a ELSE b

RECURSIVE SeqsUpTo(_, _)
\* all sequences over S of length 0..n
SeqsUpTo(S, n) ==
    IF n = 0 THEN {<<>>}
    ELSE LET shorter == SeqsUpTo(S, n - 1)
         IN  shorter \cup {Append(s, x) : s \in {t \in shorter : Len(t) = n - 1}, x \in S}

RECURSIVE Pow2(_)
\* 2 ** k
Pow2(k) == IF k = 0 THEN 1 ELSE 2 * Pow2(k - 1)

\* the function x |-> Op(x) on the finite set S, with every value computed
Tabulate(S, Op(_)) ==
    LET RECURSIVE Build(_)
        Build(T) ==
            IF T = {} THEN <<>>
            ELSE LET x == CHOOSE y \in T : TRUE
                 IN  (x :> Op(x)) @@ Build(T \ {x})
    IN  Build(S)

\* all orders a set can be listed in
Orderings(S) ==
    {s \in SeqsUpTo(S, Cardinality(S)) : Len(s) = Cardinality(S) /\ Range(s) = S}

(***************************************************************************)
(* BatchProcessor                                                          *)
(***************************************************************************)
\* bounds of the batch model
MaxItems == 3
MaxBatchSize == 2
MaxParallel == 2

\* str(e) of the exceptions an injected process_fn raises
ErrorTexts == {"boom", "timeout"}

\* The payload a process_fn call returns: None, a non-list value, or a list.
NonePayload == [kind |-> "none", items |-> <<>>]

\* The outcomes an injected process_fn may produce for batch number n with
\* batch_data d: it returns None, a scalar naming the batch, the list of the
\* items it was given, or it raises.
PayloadsFor(n, d) ==
    { NonePayload,
      [kind |-> "scalar", items |-> <<100 + n>>],
      [kind |-> "list", items |-> d] }

NoOutcome == [kind |-> "none", payload |-> NonePayload, error |-> None]

SliceMut(data, from, to) ==
    [k \in 1..(Min(to, Len(data) - 1) - from + 1) |-> data[from + k - 1]]

\* data[i:i + batch_size]
Slice(data, from, to) ==
    [k \in 1..(Min(to, Len(data)) - from + 1) |-> data[from + k - 1]]

RECURSIVE DivideFrom(_, _, _)
DivideFrom(data, i, batch_size) ==
    IF i > Len(data) THEN <<>>
    ELSE <<Slice(data, i, i + batch_size - 1)>> \o DivideFrom(data, i + batch_size, batch_size)

\* BatchProcessor.divide_into_batches
divide_into_batches(data, batch_size) == DivideFrom(data, 1, batch_size)

\* bounds of the lists and batch sizes divide_into_batches is applied to
MaxDivideItems == 10
MaxDivideSize == 5

\* the 76 executives of test_divide_76_executives_into_batches
TestItems == 76

DivideIdle ==
    /\ dvData = <<>>
    /\ dvSize = 1
    /\ dvBatches = <<>>
    /\ dvPc = "off"

\* a list of distinct items (item k at position k) and a positive batch_size
DivideInit ==
    /\ \E n \in (0..MaxDivideItems) \cup {TestItems} : dvData = [k \in 1..n |-> k]
    /\ dvSize \in 1..MaxDivideSize
    /\ dvBatches = <<>>
    /\ dvPc = "input"

\* batches = self._batch_processor.divide_into_batches(data)
Divide ==
    /\ dvPc = "input"
    /\ dvBatches' = divide_into_batches(dvData, dvSize)
    /\ dvPc' = "divided"
    /\ UNCHANGED <<dvData, dvSize>>
    /\ DivideFrame

DivideNext == Divide

NumBatches == Len(batches)

Tasks == 1..NumBatches

\* enumerate(batches): the batch at list position k (1-indexed here) is given
\* batch_num = i + 1 with i its 0-based position
BatchNumOfMut(k) == k - 1

BatchNumOf(k) == k

SuccessResultMut(batch_num, result) ==
    [batch_num |-> batch_num, success |-> TRUE, data |-> result, error |-> "boom"]

\* BatchResult(batch_num, success=True, data=result, duration)
SuccessResult(batch_num, result) ==
    [batch_num |-> batch_num, success |-> TRUE, data |-> result, error |-> None]

FailureResultMut(batch_num, e) ==
    [batch_num |-> batch_num, success |-> TRUE, data |-> NonePayload, error |-> e]

\* BatchResult(batch_num, success=False, error=str(e), duration)
FailureResult(batch_num, e) ==
    [batch_num |-> batch_num, success |-> FALSE, data |-> NonePayload, error |-> e]

NoResult == [batch_num |-> 0, success |-> FALSE, data |-> NonePayload, error |-> None]

\* the tail of _process_single_batch_async: try returned / except Exception
SingleBatchResult(batch_num, outcome) ==
    IF outcome.kind = "returned"
    THEN SuccessResult(batch_num, outcome.payload)
    ELSE FailureResult(batch_num, outcome.error)

InFlight == {i \in Tasks : pc[i] = "running"}

\* consolidate_results has not been called
NoConsolidated ==
    [data |-> <<>>, via_consolidate_fn |-> FALSE,
     metadata |-> [total_batches |-> 0, successful_batches |-> 0, failed_batches |-> 0,
                   failed_batch_numbers |-> <<>>]]

BatchIdle ==
    /\ config = [batch_size |-> 1, max_parallel_batches |-> 1, enable_parallel |-> TRUE]
    /\ batches = <<>>
    /\ mainPc = "off"
    /\ pc = <<>>
    /\ semaphore = 0
    /\ seqIdx = 0
    /\ calls = <<>>
    /\ fnOutcome = <<>>
    /\ taskResult = <<>>
    /\ finishOrder = <<>>
    /\ results = <<>>
    /\ consolidated = NoConsolidated

\* process_batches_async has been called with the batches of
\* divide_into_batches(data): the semaphore is created and one coroutine per
\* batch exists (parallel), or the sequential loop is at its first batch.
BatchInit ==
    /\ \E n \in 0..MaxItems, s \in 1..MaxBatchSize, m \in 1..MaxParallel, par \in BOOLEAN :
          /\ config = [batch_size |-> s, max_parallel_batches |-> m, enable_parallel |-> par]
          /\ batches = divide_into_batches([k \in 1..n |-> k], s)
          /\ semaphore = IF par THEN m ELSE 0
    /\ mainPc = "running"
    /\ pc = [i \in 1..Len(batches) |-> "pending"]
    /\ seqIdx = 1
    /\ calls = [i \in 1..Len(batches) |-> <<>>]
    /\ fnOutcome = [i \in 1..Len(batches) |-> NoOutcome]
    /\ taskResult = [i \in 1..Len(batches) |-> NoResult]
    /\ finishOrder = <<>>
    /\ results = <<>>
    /\ consolidated = NoConsolidated

\* the call process_fn(batch_data, batch_num, *args, **kwargs) submitted to the executor
CallRecord(i) == [items |-> batches[i], num |-> BatchNumOf(i)]

AcquireMut(i) ==
    /\ mainPc = "running"
    /\ config.enable_parallel
    /\ pc[i] = "pending"
    /\ \A j \in 1..(i - 1) : pc[j] # "pending"
    /\ semaphore' = semaphore - 1
    /\ pc' = [pc EXCEPT ![i] = "running"]
    /\ calls' = [calls EXCEPT ![i] = Append(@, CallRecord(i))]
    /\ UNCHANGED <<finishOrder, config, batches, mainPc, seqIdx, fnOutcome, taskResult, results,
                   consolidated>>
    /\ BatchFrame

\* process_with_semaphore: `async with semaphore` is entered (waiters are served
\* in arrival order, which is task order) and _process_single_batch_async runs
\* up to its await: process_fn is started in the executor.
Acquire(i) ==
    /\ mainPc = "running"
    /\ config.enable_parallel
    /\ pc[i] = "pending"
    /\ \A j \in 1..(i - 1) : pc[j] # "pending"
    /\ semaphore > 0
    /\ semaphore' = semaphore - 1
    /\ pc' = [pc EXCEPT ![i] = "running"]
    /\ calls' = [calls EXCEPT ![i] = Append(@, CallRecord(i))]
    /\ UNCHANGED <<finishOrder, config, batches, mainPc, seqIdx, fnOutcome, taskResult, results,
                   consolidated>>
    /\ BatchFrame

\* the loop starts any batch that has not run yet
SeqStartMut(i) ==
    /\ mainPc = "running"
    /\ ~config.enable_parallel
    /\ pc[i] = "pending"
    /\ pc' = [pc EXCEPT ![i] = "running"]
    /\ calls' = [calls EXCEPT ![i] = Append(@, CallRecord(i))]
    /\ UNCHANGED <<finishOrder, config, batches, mainPc, semaphore, seqIdx, fnOutcome, taskResult,
                   results, consolidated>>
    /\ BatchFrame

\* _process_batches_sequential: the loop body starts batch seqIdx
SeqStart(i) ==
    /\ mainPc = "running"
    /\ ~config.enable_parallel
    /\ i = seqIdx
    /\ pc[i] = "pending"
    /\ pc' = [pc EXCEPT ![i] = "running"]
    /\ calls' = [calls EXCEPT ![i] = Append(@, CallRecord(i))]
    /\ UNCHANGED <<finishOrder, config, batches, mainPc, semaphore, seqIdx, fnOutcome, taskResult,
                   results, consolidated>>
    /\ BatchFrame

\* process_fn returns in its worker thread
FnReturn(i) ==
    /\ pc[i] = "running"
    /\ \E p \in PayloadsFor(BatchNumOf(i), batches[i]) :
          fnOutcome' = [fnOutcome EXCEPT ![i] =
                            [kind |-> "returned", payload |-> p, error |-> None]]
    /\ pc' = [pc EXCEPT ![i] = "finished"]
    /\ finishOrder' = Append(finishOrder, i)
    /\ UNCHANGED <<config, batches, mainPc, semaphore, seqIdx, calls, taskResult,
                   results, consolidated>>
    /\ BatchFrame

\* process_fn raises an Exception in its worker thread
FnRaise(i) ==
    /\ pc[i] = "running"
    /\ \E e \in ErrorTexts :
          fnOutcome' = [fnOutcome EXCEPT ![i] =
                            [kind |-> "raised", payload |-> NonePayload, error |-> e]]
    /\ pc' = [pc EXCEPT ![i] = "finished"]
    /\ finishOrder' = Append(finishOrder, i)
    /\ UNCHANGED <<config, batches, mainPc, semaphore, seqIdx, calls, taskResult,
                   results, consolidated>>
    /\ BatchFrame

\* the permit is kept when the batch failed
CompleteTaskMut(i) ==
    /\ config.enable_parallel
    /\ pc[i] = "finished"
    /\ taskResult' = [taskResult EXCEPT ![i] = SingleBatchResult(BatchNumOf(i), fnOutcome[i])]
    /\ semaphore' = IF fnOutcome[i].kind = "raised" THEN semaphore ELSE semaphore + 1
    /\ pc' = [pc EXCEPT ![i] = "done"]
    /\ UNCHANGED <<finishOrder, config, batches, mainPc, seqIdx, calls, fnOutcome, results,
                   consolidated>>
    /\ BatchFrame

\* parallel mode: the coroutine resumes after run_in_executor, builds its
\* BatchResult and leaves `async with semaphore`
CompleteTask(i) ==
    /\ config.enable_parallel
    /\ pc[i] = "finished"
    /\ taskResult' = [taskResult EXCEPT ![i] = SingleBatchResult(BatchNumOf(i), fnOutcome[i])]
    /\ semaphore' = semaphore + 1
    /\ pc' = [pc EXCEPT ![i] = "done"]
    /\ UNCHANGED <<finishOrder, config, batches, mainPc, seqIdx, calls, fnOutcome, results,
                   consolidated>>
    /\ BatchFrame

\* the awaited result is put in front of the list
SeqCompleteMut(i) ==
    /\ ~config.enable_parallel
    /\ pc[i] = "finished"
    /\ taskResult' = [taskResult EXCEPT ![i] = SingleBatchResult(BatchNumOf(i), fnOutcome[i])]
    /\ results' = <<SingleBatchResult(BatchNumOf(i), fnOutcome[i])>> \o results
    /\ seqIdx' = seqIdx + 1
    /\ pc' = [pc EXCEPT ![i] = "done"]
    /\ UNCHANGED <<finishOrder, config, batches, mainPc, semaphore, calls, fnOutcome, consolidated>>
    /\ BatchFrame

\* sequential mode: the awaited result is appended and the loop advances
SeqComplete(i) ==
    /\ ~config.enable_parallel
    /\ pc[i] = "finished"
    /\ taskResult' = [taskResult EXCEPT ![i] = SingleBatchResult(BatchNumOf(i), fnOutcome[i])]
    /\ results' = Append(results, SingleBatchResult(BatchNumOf(i), fnOutcome[i]))
    /\ seqIdx' = seqIdx + 1
    /\ pc' = [pc EXCEPT ![i] = "done"]
    /\ UNCHANGED <<finishOrder, config, batches, mainPc, semaphore, calls, fnOutcome, consolidated>>
    /\ BatchFrame

\* the values are listed in the order the coroutines finished
GatherReturnMut ==
    /\ mainPc = "running"
    /\ config.enable_parallel
    /\ \A i \in Tasks : pc[i] = "done"
    /\ results' = [k \in 1..Len(finishOrder) |-> taskResult[finishOrder[k]]]
    /\ mainPc' = "returned"
    /\ UNCHANGED <<finishOrder, config, batches, pc, semaphore, seqIdx, calls, fnOutcome, taskResult,
                   consolidated>>
    /\ BatchFrame

\* asyncio.gather(*tasks, return_exceptions=True) returns the coroutines' values
\* in task order; the loop after it turns an Exception into a failed BatchResult
\* (no coroutine returns one: _process_single_batch_async catches Exception).
GatherReturn ==
    /\ mainPc = "running"
    /\ config.enable_parallel
    /\ \A i \in Tasks : pc[i] = "done"
    /\ results' = [i \in Tasks |-> taskResult[i]]
    /\ mainPc' = "returned"
    /\ UNCHANGED <<finishOrder, config, batches, pc, semaphore, seqIdx, calls, fnOutcome, taskResult,
                   consolidated>>
    /\ BatchFrame

\* _process_batches_sequential returns its list once the loop is exhausted
SeqReturn ==
    /\ mainPc = "running"
    /\ ~config.enable_parallel
    /\ seqIdx > NumBatches
    /\ mainPc' = "returned"
    /\ UNCHANGED <<finishOrder, config, batches, pc, semaphore, seqIdx, calls, fnOutcome, taskResult,
                   results, consolidated>>
    /\ BatchFrame

\* the indices of rs whose result satisfies keep, ascending: a list comprehension
RECURSIVE SelectIdx(_, _, _)
SelectIdx(rs, k, wantSuccess) ==
    IF k > Len(rs) THEN <<>>
    ELSE (IF rs[k].success = wantSuccess THEN <<k>> ELSE <<>>) \o SelectIdx(rs, k + 1, wantSuccess)

RECURSIVE DefaultConcatMut(_, _)
DefaultConcatMut(all_data, k) ==
    IF k > Len(all_data) THEN <<>>
    ELSE (IF all_data[k].kind = "list" THEN <<>> ELSE <<all_data[k].items[1]>>)
         \o DefaultConcatMut(all_data, k + 1)

RECURSIVE DefaultConcat(_, _)
\* the default branch: extend with a list payload, append any other payload
DefaultConcat(all_data, k) ==
    IF k > Len(all_data) THEN <<>>
    ELSE (IF all_data[k].kind = "list" THEN all_data[k].items ELSE <<all_data[k].items[1]>>)
         \o DefaultConcat(all_data, k + 1)

\* BatchProcessor.consolidate_results(results, consolidate_fn); an injected
\* consolidate_fn is opaque: its argument all_data is recorded as the data.
consolidate_results(rs, has_consolidate_fn) ==
    LET successful == SelectIdx(rs, 1, TRUE)
        failed     == SelectIdx(rs, 1, FALSE)
        withData   == SelectSeq(successful, LAMBDA k : rs[k].data.kind # "none")
        all_data   == [k \in 1..Len(withData) |-> rs[withData[k]].data]
    IN  [ data |-> IF has_consolidate_fn THEN all_data ELSE DefaultConcat(all_data, 1),
          via_consolidate_fn |-> has_consolidate_fn,
          metadata |->
            [ total_batches |-> Len(rs),
              successful_batches |-> Len(successful),
              failed_batches |-> Len(failed),
              failed_batch_numbers |-> [k \in 1..Len(failed) |-> rs[failed[k]].batch_num] ] ]

\* the caller (_execute_analysis_with_batches_async) consolidates the results
Consolidate ==
    /\ mainPc = "returned"
    /\ \E f \in BOOLEAN : consolidated' = consolidate_results(results, f)
    /\ mainPc' = "consolidated"
    /\ UNCHANGED <<finishOrder, config, batches, pc, semaphore, seqIdx, calls, fnOutcome, taskResult,
                   results>>
    /\ BatchFrame

\* bounds of the result lists consolidate_results is applied to on its own
MaxResults == 2
MaxResultNum == 2

\* any BatchResult: batch_num, success, data (None, a scalar, a list, the empty
\* list) and error set independently of each other
BatchResults ==
    UNION {{[batch_num |-> n, success |-> ok, data |-> d, error |-> e] :
               ok \in BOOLEAN,
               d \in PayloadsFor(n, <<10 * n + 1, 10 * n + 2>>)
                      \cup {[kind |-> "list", items |-> <<>>]},
               e \in {None, "boom"}} : n \in 1..MaxResultNum}

\* consolidate_results is about to be called with any list of BatchResults
ConsolidateInit ==
    /\ config = [batch_size |-> 1, max_parallel_batches |-> 1, enable_parallel |-> TRUE]
    /\ batches = <<>>
    /\ mainPc = "returned"
    /\ pc = <<>>
    /\ semaphore = 0
    /\ seqIdx = 0
    /\ calls = <<>>
    /\ fnOutcome = <<>>
    /\ taskResult = <<>>
    /\ finishOrder = <<>>
    /\ results \in SeqsUpTo(BatchResults, MaxResults)
    /\ consolidated = NoConsolidated

ConsolidateNext == Consolidate

\* the steps of process_batches_async itself, up to its return
RunNext ==
    \/ \E i \in Tasks : Acquire(i)
    \/ \E i \in Tasks : SeqStart(i)
    \/ \E i \in Tasks : FnReturn(i)
    \/ \E i \in Tasks : FnRaise(i)
    \/ \E i \in Tasks : CompleteTask(i)
    \/ \E i \in Tasks : SeqComplete(i)
    \/ GatherReturn
    \/ SeqReturn

BatchNext ==
    \/ \E i \in Tasks : Acquire(i)
    \/ \E i \in Tasks : SeqStart(i)
    \/ \E i \in Tasks : FnReturn(i)
    \/ \E i \in Tasks : FnRaise(i)
    \/ \E i \in Tasks : CompleteTask(i)
    \/ \E i \in Tasks : SeqComplete(i)
    \/ GatherReturn
    \/ SeqReturn
    \/ Consolidate

(***************************************************************************)
(* SimilarityService                                                       *)
(*                                                                         *)
(* Embeddings are vectors of small integers, so that sums of products are   *)
(* exact; square root, product and quotient are floating-point operations, *)
(* rounded to nearest (ties to even) on a significand of FloatBits bits.   *)
(* Time is counted in units of 1/UnitsPerDay day; timedelta.days is the    *)
(* floor of the elapsed days.                                              *)
(***************************************************************************)
\* bounds of the similarity model
MaxNew == 2
MaxHist == 2
MaxCooldown == 2
UnitsPerDay == 1000

Vectors == {<<1, 0>>, <<0, 1>>, <<2, 1>>}

\* similarity_threshold as <<numerator, denominator>>: 0.85 (the default) and 1.0
Thresholds == {<<17, 20>>, <<1, 1>>}

\* datetime.utcnow() at the invocation
SimNow == 10 * UnitsPerDay

RECURSIVE DotFrom(_, _, _)
\* sum(a * b for a, b in zip(vec1, vec2))
DotFrom(vec1, vec2, k) ==
    IF k > Min(Len(vec1), Len(vec2)) THEN 0
    ELSE vec1[k] * vec2[k] + DotFrom(vec1, vec2, k + 1)

Dot(vec1, vec2) == DotFrom(vec1, vec2, 1)

\* A Python float is a binary floating-point number: a significand m of
\* FloatBits bits (2^(FloatBits-1) <= m < 2^FloatBits) and an exponent e, worth
\* m * 2^e; 0.0 has m = 0.  (The float of CPython has 53 bits; 12 keep every
\* product of two significands below 2^31.)
FloatBits == 12

FloatHalf == Pow2(FloatBits - 1)

FloatFull == Pow2(FloatBits)

FloatZero == [m |-> 0, e |-> 0]

FloatOne == [m |-> FloatHalf, e |-> 1 - FloatBits]

\* num / den rounded to the nearest integer, ties to the even one
RoundDiv(num, den) ==
    LET q == num \div den
        r == num % den
    IN  IF 2 * r > den \/ (2 * r = den /\ q % 2 = 1) THEN q + 1 ELSE q

RECURSIVE FloatOf(_, _, _)
\* the float nearest to (num / den) * 2^e, for positive integers num and den
FloatOf(num, den, e) ==
    IF num >= den * FloatFull THEN FloatOf(num, 2 * den, e + 1)
    ELSE IF num < den * FloatHalf THEN FloatOf(2 * num, den, e - 1)
    ELSE LET m == RoundDiv(num, den)
         IN  IF m = FloatFull THEN [m |-> FloatHalf, e |-> e + 1] ELSE [m |-> m, e |-> e]

RECURSIVE FloorSqrt(_, _, _)
\* the largest r in lo..hi with r * r <= n
FloorSqrt(n, lo, hi) ==
    IF lo >= hi THEN lo
    ELSE LET mid == (lo + hi + 1) \div 2
         IN  IF mid * mid <= n THEN FloorSqrt(n, mid, hi) ELSE FloorSqrt(n, lo, mid - 1)

RECURSIVE SqrtScaled(_, _)
\* the float nearest to sqrt(n) * 2^e, for a positive integer n < 2^(2 FloatBits)
SqrtScaled(n, e) ==
    IF n < FloatHalf * FloatHalf THEN SqrtScaled(4 * n, e - 1)
    ELSE LET r == FloorSqrt(n, FloatHalf, FloatFull - 1)
             m == IF n > r * r + r THEN r + 1 ELSE r
         IN  IF m = FloatFull THEN [m |-> FloatHalf, e |-> e + 1] ELSE [m |-> m, e |-> e]

\* math.sqrt(n): correctly rounded
FloatSqrt(n) == SqrtScaled(n, 0)

\* a * b of two positive floats
FloatMul(a, b) ==
    LET f == FloatOf(a.m * b.m, 1, 0)
    IN  [m |-> f.m, e |-> f.e + a.e + b.e]

\* n / b of a positive integer (converted exactly) and a positive float
FloatDiv(n, b) ==
    LET f == FloatOf(n, b.m, 0)
    IN  [m |-> f.m, e |-> f.e - b.e]

\* a <= b of two floats that are not negative
FloatLeq(a, b) ==
    IF a.m = 0 THEN TRUE
    ELSE IF b.m = 0 THEN FALSE
    ELSE a.e < b.e \/ (a.e = b.e /\ a.m <= b.m)

CosineRaised == [raised |-> TRUE, value |-> FloatZero]

ClampMut(similarity) == similarity

\* max(0.0, min(1.0, similarity)) of a positive similarity
Clamp(similarity) == IF FloatLeq(FloatOne, similarity) THEN FloatOne ELSE similarity

\* SimilarityService.cosine_similarity: raised = ValueError; otherwise value
\* is max(0.0, min(1.0, dot_product / (magnitude1 * magnitude2)))
cosine_similarity(vec1, vec2) ==
    LET dot_product == Dot(vec1, vec2)
        sq1 == Dot(vec1, vec1)
        sq2 == Dot(vec2, vec2)
    IN  IF Len(vec1) = 0 \/ Len(vec2) = 0 THEN CosineRaised
        ELSE IF Len(vec1) # Len(vec2) THEN CosineRaised
        ELSE IF sq1 = 0 \/ sq2 = 0 THEN CosineRaised
        ELSE IF dot_product <= 0 THEN [raised |-> FALSE, value |-> FloatZero]
        ELSE [raised |-> FALSE,
              value |-> Clamp(FloatDiv(dot_product,
                                       FloatMul(FloatSqrt(sq1), FloatSqrt(sq2))))]

\* cosine_similarity over the embeddings of the recommendations ([] included),
\* computed once
CosineTable ==
    Tabulate((Vectors \cup {<<>>}) \X (Vectors \cup {<<>>}),
             LAMBDA pair : cosine_similarity(pair[1], pair[2]))

\* self._similarity_threshold: the float nearest to the configured fraction
ThresholdTable == Tabulate(Thresholds, LAMBDA th : FloatOf(th[1], th[2], 0))

\* SimilarityService.is_similar: similarity >= self._similarity_threshold
is_similar(cfg, vec1, vec2) ==
    LET sim == CosineTable[<<vec1, vec2>>]
    IN  [raised |-> sim.raised,
         similar |-> (~sim.raised) /\ FloatLeq(ThresholdTable[cfg.threshold], sim.value)]

\* bounds of the vectors cosine_similarity is applied to on its own
MaxDim == 2
MaxComponent == 2

\* vectors of 0..MaxDim components, each in -1..MaxComponent
CosineVectors == UNION {[1..n -> -1..MaxComponent] : n \in 0..MaxDim}

NoCosine == [raised |-> FALSE, value |-> FloatZero]

CosineIdle ==
    /\ csVec1 = <<>>
    /\ csVec2 = <<>>
    /\ csPc = "off"
    /\ csOut = NoCosine

CosineInit ==
    /\ csVec1 \in CosineVectors
    /\ csVec2 \in CosineVectors
    /\ csPc = "input"
    /\ csOut = NoCosine

\* a call cosine_similarity(vec1, vec2)
Cosine ==
    /\ csPc = "input"
    /\ csOut' = cosine_similarity(csVec1, csVec2)
    /\ csPc' = "computed"
    /\ UNCHANGED <<csVec1, csVec2>>
    /\ CosineFrame

CosineNext == Cosine

\* (datetime.utcnow() - historical_time).days
TimeDiffDays(timestamp) == (SimNow - timestamp) \div UnitsPerDay

\* a historical record: the "embedding" key and its list, the "timestamp" key
\* and its ISO string (timestamp_empty: the string is "", timestamp: the
\* instant a non-empty string parses to)
NoRecord == [has_embedding |-> FALSE, embedding |-> <<>>,
             has_timestamp |-> FALSE, timestamp_empty |-> FALSE, timestamp |-> 0]

CheckRaised == [raised |-> TRUE, should_filter |-> FALSE, matched |-> FALSE,
                match |-> NoRecord]

CooldownTestMut(cfg, timestamp) == TimeDiffDays(timestamp) <= cfg.cooldown_days

\* time_diff.days < self._cooldown_days
CooldownTest(cfg, timestamp) == TimeDiffDays(timestamp) < cfg.cooldown_days

RECURSIVE CheckFrom(_, _, _, _)
\* the loop `for historical in historical_recommendations` from position k
CheckFrom(cfg, new_embedding, hist, k) ==
    IF k > Len(hist)
    THEN [raised |-> FALSE, should_filter |-> FALSE, matched |-> FALSE, match |-> NoRecord]
    ELSE IF ~hist[k].has_embedding THEN CheckFrom(cfg, new_embedding, hist, k + 1)
    ELSE IF ~hist[k].has_timestamp THEN CheckFrom(cfg, new_embedding, hist, k + 1)
    ELSE LET s == is_similar(cfg, new_embedding, hist[k].embedding)
         IN  IF s.raised THEN CheckRaised
             ELSE IF s.similar
             THEN \* datetime.fromisoformat("") raises ValueError
                  IF hist[k].timestamp_empty THEN CheckRaised
                  ELSE [raised |-> FALSE,
                        should_filter |-> CooldownTest(cfg, hist[k].timestamp),
                        matched |-> TRUE, match |-> hist[k]]
             ELSE CheckFrom(cfg, new_embedding, hist, k + 1)

\* SimilarityService.check_recommendation_similarity
check_recommendation_similarity(cfg, new_rec, hist) ==
    IF ~new_rec.has_embedding THEN CheckRaised
    ELSE CheckFrom(cfg, new_rec.embedding, hist, 1)

\* new_rec with new_rec["status"] (and "previous_timestamp") set
Tagged(new_rec, status, previous) ==
    [recommendation |-> new_rec.recommendation, embedding |-> new_rec.embedding,
     status |-> status, previous_timestamp |-> previous]

RECURSIVE FilterLoop(_, _, _, _)
\* the loop `for new_rec in new_recommendations` from position k
FilterLoop(cfg, new_recs, hist, k) ==
    IF k > Len(new_recs) THEN [raised |-> FALSE, filtered |-> <<>>]
    ELSE LET c    == check_recommendation_similarity(cfg, new_recs[k], hist)
             rest == FilterLoop(cfg, new_recs, hist, k + 1)
         IN  IF c.raised \/ rest.raised THEN [raised |-> TRUE, filtered |-> <<>>]
             ELSE IF c.should_filter THEN rest
             ELSE IF c.matched
             THEN [raised |-> FALSE,
                   filtered |-> <<Tagged(new_recs[k], "repeated_no_change",
                                         <<c.match.timestamp>>)>> \o rest.filtered]
             ELSE [raised |-> FALSE,
                   filtered |-> <<Tagged(new_recs[k], "new", <<>>)>> \o rest.filtered]

ForcedFirstMut(new_recs, filtered) == filtered

\* `if new_recommendations and not filtered`: force the first recommendation
ForcedFirst(new_recs, filtered) ==
    IF Len(new_recs) > 0 /\ Len(filtered) = 0
    THEN <<Tagged(new_recs[1], "forced", <<>>)>>
    ELSE filtered

\* SimilarityService.filter_recommendations (both arguments are lists)
filter_recommendations(cfg, new_recs, hist) ==
    LET loop == FilterLoop(cfg, new_recs, hist, 1)
    IN  IF loop.raised THEN loop
        ELSE [raised |-> FALSE, filtered |-> ForcedFirst(new_recs, loop.filtered)]

\* the timestamps around the cooldown boundary: elapsed = cooldown -/+ one unit
BoundaryTimestamps(c) ==
    {SimNow - (c * UnitsPerDay - 1), SimNow - c * UnitsPerDay, SimNow - (c * UnitsPerDay + 1)}

\* historical records: complete ones, ones lacking the embedding or the
\* timestamp key, one whose embedding is [] and one whose timestamp is ""
HistoryRecords(c) ==
    {[has_embedding |-> TRUE, embedding |-> v, has_timestamp |-> TRUE,
      timestamp_empty |-> FALSE, timestamp |-> t] :
        v \in Vectors, t \in BoundaryTimestamps(c)}
    \cup {[has_embedding |-> FALSE, embedding |-> <<>>, has_timestamp |-> TRUE,
           timestamp_empty |-> FALSE, timestamp |-> SimNow - c * UnitsPerDay]}
    \cup {[has_embedding |-> TRUE, embedding |-> v, has_timestamp |-> FALSE,
           timestamp_empty |-> FALSE, timestamp |-> 0] :
        v \in Vectors}
    \cup {[has_embedding |-> TRUE, embedding |-> <<>>, has_timestamp |-> TRUE,
           timestamp_empty |-> FALSE, timestamp |-> SimNow - c * UnitsPerDay]}
    \cup {[has_embedding |-> TRUE, embedding |-> <<1, 0>>, has_timestamp |-> TRUE,
           timestamp_empty |-> TRUE, timestamp |-> 0]}

\* new recommendations as the analysis flow builds them: a text k with its
\* embedding, or the empty text 0, for which no embedding is generated
\* (`if rec_text:`)
NewRecLists ==
    {[k \in 1..Len(vs) |-> [recommendation |-> k, has_embedding |-> TRUE, embedding |-> vs[k]]] :
        vs \in SeqsUpTo(Vectors, MaxNew)}
    \cup {[k \in 1..n |-> [recommendation |-> 0, has_embedding |-> FALSE, embedding |-> <<>>]] :
            n \in 1..MaxNew}

NoCheck == [raised |-> FALSE, should_filter |-> FALSE, matched |-> FALSE, match |-> NoRecord]

NoFilter == [raised |-> FALSE, filtered |-> <<>>]

SimIdle ==
    /\ simCfg = [threshold |-> <<17, 20>>, cooldown_days |-> 1]
    /\ newRecs = <<>>
    /\ history = <<>>
    /\ simPc = "off"
    /\ checkOut = NoCheck
    /\ filterOut = NoFilter

SimInit ==
    /\ \E th \in Thresholds, c \in 1..MaxCooldown :
          /\ simCfg = [threshold |-> th, cooldown_days |-> c]
          /\ history \in SeqsUpTo(HistoryRecords(c), MaxHist)
    /\ newRecs \in NewRecLists
    /\ simPc = "input"
    /\ checkOut = NoCheck
    /\ filterOut = NoFilter

\* a call check_recommendation_similarity(new_recommendations[0], history)
CheckSimilarity ==
    /\ simPc = "input"
    /\ Len(newRecs) > 0
    /\ checkOut' = check_recommendation_similarity(simCfg, newRecs[1], history)
    /\ simPc' = "checked"
    /\ UNCHANGED <<simCfg, newRecs, history, filterOut>>
    /\ SimFrame

\* a call filter_recommendations(new_recommendations, history)
FilterRecommendations ==
    /\ simPc = "input"
    /\ filterOut' = filter_recommendations(simCfg, newRecs, history)
    /\ simPc' = "filtered"
    /\ UNCHANGED <<simCfg, newRecs, history, checkOut>>
    /\ SimFrame

SimNext ==
    \/ CheckSimilarity
    \/ FilterRecommendations

(***************************************************************************)
(* RecommendationMemoryStore.store_recommendation                          *)
(***************************************************************************)
\* bound: store_recommendation calls made in one behaviour
MaxStoreCalls == 2

\* max_retries = 3
max_retries == 3

ExecutiveArgs == {"", "E1", "E2"}

ClientArgs == {"", "C1"}

TextArgs == {"", " ", "llamar", "visitar"}

MetadataArgs == {None, "prioridad"}

\* str(e) of the errors insert_one raises
InsertErrors == {"timeout", "not connected"}

IsBlankMut(text) == text = ""

\* `not recommendation_text or not recommendation_text.strip()`
IsBlank(text) == text \in {"", " "}

\* the embedding collaborator: text -> vector
Embedding(text) == IF text = "llamar" THEN <<1, 0>> ELSE <<0, 1>>


WaitTimeMut(attempt) == 2 * attempt

\* wait_time = 2 ** attempt
WaitTime(attempt) == Pow2(attempt)

NoArgs == [executive_id |-> "", client_id |-> "", recommendation_text |-> "",
           metadata |-> None]

NoStoreResult == [kind |-> "none", id |-> 0, error |-> None, cause |-> None]

\* the caller's metadata is not written
DocMut(args, now) ==
    [executive_id |-> args.executive_id,
     client_id |-> args.client_id,
     recommendation |-> args.recommendation_text,
     embedding |-> Embedding(args.recommendation_text),
     timestamp |-> now,
     metadata |-> "{}"]

\* the document built before the retry loop
Doc(args, now) ==
    [executive_id |-> args.executive_id,
     client_id |-> args.client_id,
     recommendation |-> args.recommendation_text,
     embedding |-> Embedding(args.recommendation_text),
     timestamp |-> now,
     metadata |-> IF args.metadata = None THEN "{}" ELSE args.metadata]

NoDoc == Doc(NoArgs, 0)

\* an optional int argument: None, or a value
NoInt == [given |-> FALSE, value |-> 0]

NoGet == [executive_id |-> "", client_id |-> "", days_back |-> NoInt, limit |-> NoInt,
          now |-> 0]

NoGetResult == [kind |-> "none", records |-> <<>>, queries |-> 0]

StoreIdle ==
    /\ stPc = "off"
    /\ stArgs = NoArgs
    /\ stAttempt = 0
    /\ stInserts = <<>>
    /\ stSleeps = <<>>
    /\ stEmbedCalls = 0
    /\ stResult = NoStoreResult
    /\ stCalls = 0
    /\ stNow = 0
    /\ stDoc = NoDoc
    /\ collection = <<>>
    /\ ghPc = "idle"
    /\ ghCall = NoGet
    /\ ghOut = NoGetResult

StoreInit ==
    /\ stPc = "idle"
    /\ stArgs = NoArgs
    /\ stAttempt = 0
    /\ stInserts = <<>>
    /\ stSleeps = <<>>
    /\ stEmbedCalls = 0
    /\ stResult = NoStoreResult
    /\ stCalls = 0
    /\ stNow = 0
    /\ stDoc = NoDoc
    /\ collection = <<>>
    /\ ghPc = "idle"
    /\ ghCall = NoGet
    /\ ghOut = NoGetResult

\* store_recommendation is called: validation, then the embedding is generated
\* and the document prepared; a failing validation or embedding call raises.
StoreCall ==
    /\ stPc \in {"idle", "returned", "raised"}
    /\ ghPc = "idle"
    /\ stCalls < MaxStoreCalls
    /\ stCalls' = stCalls + 1
    /\ stNow' = stNow + 1
    /\ stAttempt' = 0
    /\ stInserts' = <<>>
    /\ stSleeps' = <<>>
    /\ \E e \in ExecutiveArgs, c \in ClientArgs, t \in TextArgs, m \in MetadataArgs,
          embed_ok \in BOOLEAN :
          /\ stArgs' = [executive_id |-> e, client_id |-> c, recommendation_text |-> t,
                        metadata |-> m]
          /\ IF e = "" \/ c = "" \/ IsBlank(t)
             THEN /\ stPc' = "raised"
                  /\ stEmbedCalls' = 0
                  /\ stDoc' = NoDoc
                  /\ stResult' = [kind |-> "ValueError", id |-> 0, error |-> "cannot be empty",
                                  cause |-> None]
             ELSE /\ stEmbedCalls' = 1
                  /\ IF embed_ok
                     THEN /\ stPc' = "insert"
                          /\ stDoc' = Doc(stArgs', stNow')
                          /\ stResult' = NoStoreResult
                     ELSE /\ stPc' = "raised"
                          /\ stDoc' = NoDoc
                          /\ stResult' = [kind |-> "EmbeddingError", id |-> 0,
                                          error |-> "embedding failed", cause |-> None]
    /\ UNCHANGED <<collection, ghPc, ghCall, ghOut>>
    /\ StoreFrame

\* the record replaces the pair's earlier records (an upsert keyed by the pair)
InsertOkMut ==
    /\ stPc = "insert"
    /\ collection' = SelectSeq(collection,
                               LAMBDA d : ~(/\ d.executive_id = stDoc.executive_id
                                            /\ d.client_id = stDoc.client_id))
                      \o <<stDoc>>
    /\ stInserts' = Append(stInserts, "ok")
    /\ stResult' = [kind |-> "id", id |-> Len(collection) + 1, error |-> None, cause |-> None]
    /\ stPc' = "returned"
    /\ UNCHANGED <<stArgs, stAttempt, stSleeps, stEmbedCalls, stCalls, stNow, stDoc,
                   ghPc, ghCall, ghOut>>
    /\ StoreFrame

\* insert_one succeeds: the id is returned
InsertOk ==
    /\ stPc = "insert"
    /\ collection' = Append(collection, stDoc)
    /\ stInserts' = Append(stInserts, "ok")
    /\ stResult' = [kind |-> "id", id |-> Len(collection) + 1, error |-> None, cause |-> None]
    /\ stPc' = "returned"
    /\ UNCHANGED <<stArgs, stAttempt, stSleeps, stEmbedCalls, stCalls, stNow, stDoc,
                   ghPc, ghCall, ghOut>>
    /\ StoreFrame

\* insert_one raises: the last attempt raises ConnectionError carrying str(e),
\* any other attempt starts time.sleep(2 ** attempt)
InsertFail ==
    /\ stPc = "insert"
    /\ \E e \in InsertErrors :
          /\ stInserts' = Append(stInserts, e)
          /\ IF stAttempt = max_retries - 1
             THEN /\ stPc' = "raised"
                  /\ stResult' = [kind |-> "ConnectionError", id |-> 0,
                                  error |-> "Failed to store recommendation after attempts",
                                  cause |-> e]
                  /\ stSleeps' = stSleeps
             ELSE /\ stPc' = "sleep"
                  /\ stResult' = stResult
                  /\ stSleeps' = Append(stSleeps, WaitTime(stAttempt))
    /\ UNCHANGED <<stArgs, stAttempt, stEmbedCalls, stCalls, stNow, stDoc, collection,
                   ghPc, ghCall, ghOut>>
    /\ StoreFrame

\* time.sleep returns and the loop takes the next attempt
WakeUp ==
    /\ stPc = "sleep"
    /\ stNow' = stNow + stSleeps[Len(stSleeps)]
    /\ stAttempt' = stAttempt + 1
    /\ stPc' = "insert"
    /\ UNCHANGED <<stArgs, stInserts, stSleeps, stEmbedCalls, stResult, stCalls, stDoc,
                   collection, ghPc, ghCall, ghOut>>
    /\ StoreFrame

StoreNext ==
    \/ StoreCall
    \/ InsertOk
    \/ InsertFail
    \/ WakeUp

(***************************************************************************)
(* RecommendationMemoryStore.get_historical_recommendations                *)
(*                                                                         *)
(* Timestamps are seconds of the clock stNow; the ISO-8601 strings the     *)
(* code stores and compares order as these numbers do.                     *)
(***************************************************************************)
\* bounds of the retrieval arguments
MaxDaysBack == 1
MaxLimit == 1

\* timedelta(days=1) in seconds
SecondsPerDay == 86400

GetExecutiveArgs == {"", "E1"}

GetClientArgs == {"", "C1", "C2"}

\* days_back / limit: None or an int, non-positive ones included
DaysBackArgs == {NoInt} \cup {[given |-> TRUE, value |-> v] : v \in 0..MaxDaysBack}

LimitArgs == {NoInt} \cup {[given |-> TRUE, value |-> v] : v \in 0..MaxLimit}

\* filter_doc: executive_id, client_id and, with days_back, timestamp $gte cutoff
FilterDoc(d, executive_id, client_id, days_back, now) ==
    /\ d.executive_id = executive_id
    /\ d.client_id = client_id
    /\ days_back.given => d.timestamp >= now - days_back.value * SecondsPerDay

\* MongoDBClient.query: collection.find(filter) lists the matching documents
\* in an order storage chooses (no sort is asked for); cursor.limit(limit)
\* keeps the first `limit` of them
FindResults(coll, executive_id, client_id, days_back, limit, now) ==
    LET hits == {k \in 1..Len(coll) : FilterDoc(coll[k], executive_id, client_id,
                                                days_back, now)}
    IN  {[k \in 1..(IF limit.given THEN Min(limit.value, Len(order)) ELSE Len(order)) |->
             coll[order[k]]] : order \in Orderings(hits)}

RECURSIVE InsertNewestFirstMut(_, _)
InsertNewestFirstMut(sorted, x) ==
    IF Len(sorted) = 0 THEN <<x>>
    ELSE IF Head(sorted).timestamp <= x.timestamp
    THEN <<Head(sorted)>> \o InsertNewestFirstMut(Tail(sorted), x)
    ELSE <<x>> \o sorted

RECURSIVE InsertNewestFirst(_, _)
\* one step of the stable sort: x goes after the records that are not older
InsertNewestFirst(sorted, x) ==
    IF Len(sorted) = 0 THEN <<x>>
    ELSE IF Head(sorted).timestamp >= x.timestamp
    THEN <<Head(sorted)>> \o InsertNewestFirst(Tail(sorted), x)
    ELSE <<x>> \o sorted

RECURSIVE SortNewestFirst(_)
\* results.sort(key=timestamp, reverse=True)
SortNewestFirst(rs) ==
    IF Len(rs) = 0 THEN <<>>
    ELSE InsertNewestFirst(SortNewestFirst(SubSeq(rs, 1, Len(rs) - 1)), rs[Len(rs)])

\* get_historical_recommendations: the outcomes of one call at time `now`
\* over the order storage lists the documents in and over the query failing
get_historical_recommendations(coll, executive_id, client_id, days_back, limit, now, ok) ==
    IF executive_id = "" \/ client_id = ""
    THEN {[kind |-> "ValueError", records |-> <<>>, queries |-> 0]}
    ELSE IF days_back.given /\ days_back.value <= 0
    THEN {[kind |-> "ValueError", records |-> <<>>, queries |-> 0]}
    ELSE IF limit.given /\ limit.value <= 0
    THEN {[kind |-> "ValueError", records |-> <<>>, queries |-> 0]}
    ELSE IF ~ok
    THEN {[kind |-> "ConnectionError", records |-> <<>>, queries |-> 1]}
    ELSE {[kind |-> "list", records |-> SortNewestFirst(found), queries |-> 1] :
             found \in FindResults(coll, executive_id, client_id, days_back, limit, now)}

\* a caller retrieves the history before any store or after a store returned;
\* a behaviour ends with the retrieval (it changes nothing in storage)
GetHistorical ==
    /\ stPc \in {"idle", "returned"}
    /\ ghPc = "idle"
    /\ \E e \in GetExecutiveArgs, c \in GetClientArgs, days_back \in DaysBackArgs,
          limit \in LimitArgs, ok \in BOOLEAN :
          /\ ghCall' = [executive_id |-> e, client_id |-> c, days_back |-> days_back,
                        limit |-> limit, now |-> stNow]
          /\ ghOut' \in get_historical_recommendations(collection, e, c, days_back, limit,
                                                       stNow, ok)
    /\ ghPc' = "done"
    /\ UNCHANGED <<stPc, stArgs, stAttempt, stInserts, stSleeps, stEmbedCalls, stResult,
                   stCalls, stNow, stDoc, collection>>
    /\ StoreFrame

\* the clock when the behaviour starts
HistoryStart == 2 * SecondsPerDay

\* the records earlier store_recommendation calls left: stored a day before the
\* start, a second after that, or just before the start
EarlierDocs ==
    {Doc([executive_id |-> e, client_id |-> "C1", recommendation_text |-> t,
          metadata |-> None], ts) :
        e \in {"E1", "E2"}, t \in {"llamar", "visitar"},
        ts \in {HistoryStart - SecondsPerDay, HistoryStart - SecondsPerDay + 1,
                HistoryStart - 1}}

\* all but one of the store calls have been made and have left their records
HistoryInit ==
    /\ stPc = "idle"
    /\ stArgs = NoArgs
    /\ stAttempt = 0
    /\ stInserts = <<>>
    /\ stSleeps = <<>>
    /\ stEmbedCalls = 0
    /\ stResult = NoStoreResult
    /\ stCalls = MaxStoreCalls - 1
    /\ stNow = HistoryStart
    /\ stDoc = NoDoc
    /\ collection \in SeqsUpTo(EarlierDocs, MaxStoreCalls - 1)
    /\ ghPc = "idle"
    /\ ghCall = NoGet
    /\ ghOut = NoGetResult

\* bound: the records the other workers insert in one behaviour
MaxOtherStores == 2

\* the document another worker's store_recommendation call built for the
\* same pair when the batch started
OtherDoc ==
    Doc([executive_id |-> "E1", client_id |-> "C1", recommendation_text |-> "visitar",
         metadata |-> None], HistoryStart)

\* a store_recommendation call of another parallel worker reaches storage: its
\* insert_one succeeds (its validation, embedding, failed attempts and waits
\* touch nothing this call shares with it)
OtherWorkerStores ==
    /\ Len(SelectSeq(collection, LAMBDA d : d = OtherDoc)) < MaxOtherStores
    /\ collection' = Append(collection, OtherDoc)
    /\ UNCHANGED <<stPc, stArgs, stAttempt, stInserts, stSleeps, stEmbedCalls, stResult,
                   stCalls, stNow, stDoc, ghPc, ghCall, ghOut>>
    /\ StoreFrame

WorkersNext ==
    \/ StoreCall
    \/ InsertOk
    \/ InsertFail
    \/ WakeUp
    \/ OtherWorkerStores

HistoryNext ==
    \/ StoreCall
    \/ InsertOk
    \/ InsertFail
    \/ WakeUp
    \/ GetHistorical

(***************************************************************************)
(* MemoryResetService and the availability count of the analyze route       *)
(*                                                                         *)
(* A timestamp is day * SlotsPerDay + slot: slot 0 is midnight, the other   *)
(* slots are later instants of that day.  ISO-8601 strings of one format    *)
(* compare as these numbers do; the date part of a timestamp is its day.    *)
(***************************************************************************)
\* bounds of the reset model
MaxDocs == 3
MaxAvailable == 5
SlotsPerDay == 2
RefDay == 10

\* required_recommendations=3 in the analyze route (also the default)
RequiredRecommendations == 3

\* PREFILTER_DAYS_THRESHOLD default "7" (also the default of days_threshold)
PrefilterDays == 7

Executives == {"E1", "E2"}

\* cartera_detallada of every executive
Portfolio == {"c1", "c2", "c3"}

DateOf(timestamp) == timestamp \div SlotsPerDay

Midnight(day) == day * SlotsPerDay

\* datetime.utcnow() when no reference date is given: later on RefDay
ResetNow == Midnight(RefDay) + 1

\* the instants a stored record may carry: before the cutoff day, on the cutoff
\* day at midnight and later, and after the cutoff day
TimestampChoices ==
    { Midnight(RefDay - PrefilterDays - 1),
      Midnight(RefDay - PrefilterDays),
      Midnight(RefDay - PrefilterDays) + 1,
      Midnight(RefDay - PrefilterDays + 1),
      Midnight(RefDay - 1) + 1 }

\* the documents memory_embeddings may hold: any record of E1, one record of E2
DocChoices ==
    {[executive_id |-> "E1", client_id |-> c, timestamp |-> t] :
        c \in Portfolio, t \in TimestampChoices}
    \cup {[executive_id |-> "E2", client_id |-> "c1", timestamp |-> Midnight(RefDay - 1) + 1]}

\* reference_date: a date string (has_date) or None
ReferenceChoices == {[has_date |-> TRUE, day |-> RefDay], [has_date |-> FALSE, day |-> 0]}

\* ref_dt = datetime.fromisoformat(reference_date.split('T')[0]) or utcnow()
RefDt(reference_date) ==
    IF reference_date.has_date THEN Midnight(reference_date.day) ELSE ResetNow

\* cutoff_date = ref_dt - timedelta(days=days_threshold)
Cutoff(reference_date, days_threshold) ==
    RefDt(reference_date) - days_threshold * SlotsPerDay

DocsOf(mem, executive_id, client_id) ==
    {d \in mem : d.executive_id = executive_id /\ d.client_id = client_id}

\* the $lookup of the analyze query: the three newest records of the client
MemoryRecs(mem, executive_id, client_id) ==
    LET ds == DocsOf(mem, executive_id, client_id)
    IN  {d \in ds : Cardinality({o \in ds : o.timestamp > d.timestamp}) < 3}

\* routes.py: has_recent_rec, comparing the date parts only (rec_date > cutoff date)
HasRecentRec(mem, executive_id, client_id, reference_date, days) ==
    \E rec \in MemoryRecs(mem, executive_id, client_id) :
        DateOf(rec.timestamp) > DateOf(Cutoff(reference_date, days))

\* routes.py: available_clients of one executive
AvailableClients(mem, executive_id, reference_date, days) ==
    {c \in Portfolio : ~HasRecentRec(mem, executive_id, c, reference_date, days)}

\* the $match stage: the executive's records with timestamp > cutoff_str
Matched(mem, executive_id, days_threshold, reference_date) ==
    {d \in mem : /\ d.executive_id = executive_id
                 /\ d.timestamp > Cutoff(reference_date, days_threshold)}

\* the $sort/$group stages: one group per client_id, oldest_timestamp = $first
GroupOf(matched, client_id) ==
    LET ds == {d \in matched : d.client_id = client_id}
    IN  [client_id |-> client_id,
         oldest_timestamp |-> CHOOSE t \in {d.timestamp : d \in ds} :
                                  \A d \in ds : t <= d.timestamp,
         count |-> Cardinality(ds)]

Groups(mem, executive_id, days_threshold, reference_date) ==
    LET matched == Matched(mem, executive_id, days_threshold, reference_date)
    IN  {GroupOf(matched, c) : c \in {d.client_id : d \in matched}}

\* _get_recommended_clients_sorted: list(collection.aggregate(pipeline)).  $group
\* emits its groups in no specified order; a storage error gives [].
get_recommended_clients_sorted(mem, executive_id, days_threshold, reference_date, ok) ==
    IF ok THEN Orderings(Groups(mem, executive_id, days_threshold, reference_date))
    ELSE {<<>>}

PrefixMut(s, n) == [k \in 1..Min(Max(n - 1, 0), Len(s)) |-> s[k]]

\* recommended_clients[:embeddings_to_delete]
Prefix(s, n) == [k \in 1..Min(Max(n, 0), Len(s)) |-> s[k]]

\* the filter of _delete_oldest_embeddings: executive_id and client_id $in client_ids
ToDeleteOldestMut(mem, executive_id, clients_to_free) ==
    {d \in mem : d.client_id \in {g.client_id : g \in Range(clients_to_free)}}

ToDeleteOldest(mem, executive_id, clients_to_free) ==
    {d \in mem : /\ d.executive_id = executive_id
                 /\ d.client_id \in {g.client_id : g \in Range(clients_to_free)}}

ToDeleteExecutiveMut(mem, executive_id) ==
    {d \in mem : d.executive_id = executive_id /\ d.timestamp > Midnight(RefDay - PrefilterDays)}

\* the filter of _delete_executive_embeddings
ToDeleteExecutive(mem, executive_id) == {d \in mem : d.executive_id = executive_id}

\* the handler lets the storage error out of the call instead of swallowing it
delete_executive_embeddingsMut(mem, executive_id, ok) ==
    IF ok
    THEN [deleted_count |-> Cardinality(ToDeleteExecutive(mem, executive_id)),
          gone |-> ToDeleteExecutive(mem, executive_id), raised |-> FALSE]
    ELSE [deleted_count |-> 0, gone |-> {}, raised |-> TRUE]

\* _delete_executive_embeddings: delete_many({"executive_id": ...}) and its
\* deleted_count; `except Exception` logs and returns 0 (nothing was deleted)
delete_executive_embeddings(mem, executive_id, ok) ==
    IF ok
    THEN [deleted_count |-> Cardinality(ToDeleteExecutive(mem, executive_id)),
          gone |-> ToDeleteExecutive(mem, executive_id), raised |-> FALSE]
    ELSE [deleted_count |-> 0, gone |-> {}, raised |-> FALSE]

\* _delete_oldest_embeddings: an empty list returns 0 without touching storage;
\* otherwise delete_many on the clients' records, 0 when storage raises
delete_oldest_embeddings(mem, executive_id, clients_to_free, ok) ==
    IF Len(clients_to_free) = 0
    THEN [deleted_count |-> 0, gone |-> {}, raised |-> FALSE]
    ELSE IF ok
    THEN [deleted_count |-> Cardinality(ToDeleteOldest(mem, executive_id, clients_to_free)),
          gone |-> ToDeleteOldest(mem, executive_id, clients_to_free), raised |-> FALSE]
    ELSE [deleted_count |-> 0, gone |-> {}, raised |-> FALSE]

SufficientMut(a, required) == a > required

\* Case 1: `if clients_available >= required_recommendations`
Sufficient(a, required) == a >= required

NoTrace == [before |-> {}, aggregates |-> 0, deletes |-> 0, failed |-> FALSE,
            groups |-> <<>>, freed |-> <<>>]

\* MemoryResetService.check_and_reset_if_needed with a = len(available_clients).
\* The set of outcomes [result, memory, trace] over the order the aggregate
\* lists its groups in and over the storage calls succeeding (agg_ok, del_ok).
check_and_reset_if_needed(mem, executive_id, a, required, days, ref, agg_ok, del_ok) ==
    LET clients_needed == required - a
        days_threshold == days
        reference_date == ref
    IN  IF Sufficient(a, required)
        THEN {[result |-> [action |-> "none", clients_available |-> a, clients_needed |-> 0,
                           embeddings_deleted |-> 0],
               memory |-> mem,
               raised |-> FALSE,
               trace  |-> [before |-> mem, aggregates |-> 0, deletes |-> 0,
                           failed |-> FALSE, groups |-> <<>>, freed |-> <<>>]]}
        ELSE IF a = 0
        THEN LET del == delete_executive_embeddings(mem, executive_id, del_ok)
             IN  {[result |-> [action |-> "full_reset", clients_available |-> 0,
                               clients_needed |-> required,
                               embeddings_deleted |-> del.deleted_count],
                   memory |-> mem \ del.gone,
                   raised |-> del.raised,
                   trace  |-> [before |-> mem, aggregates |-> 0, deletes |-> 1,
                               failed |-> ~del_ok, groups |-> <<>>, freed |-> <<>>]]}
        ELSE {LET clients_to_free == Prefix(recommended_clients, clients_needed)
                  del == delete_oldest_embeddings(mem, executive_id, clients_to_free, del_ok)
              IN  [result |-> [action |-> "partial_reset", clients_available |-> a,
                               clients_needed |-> clients_needed,
                               embeddings_deleted |-> del.deleted_count],
                   memory |-> mem \ del.gone,
                   raised |-> del.raised,
                   trace  |-> [before |-> mem, aggregates |-> 1,
                               deletes |-> IF Len(clients_to_free) = 0 THEN 0 ELSE 1,
                               failed |-> (~agg_ok) \/ (Len(clients_to_free) > 0 /\ ~del_ok),
                               groups |-> recommended_clients, freed |-> clients_to_free]] :
                recommended_clients \in
                    get_recommended_clients_sorted(mem, executive_id, days_threshold,
                                                   reference_date, agg_ok)}

NoCall == [executive_id |-> "", available |-> 0, required |-> 0, days_threshold |-> 0,
           reference_date |-> [has_date |-> FALSE, day |-> 0], from_route |-> FALSE]

NoDecision == [action |-> "", clients_available |-> 0, clients_needed |-> 0,
               embeddings_deleted |-> 0]

ResetIdle ==
    /\ memory = {}
    /\ rsPc = "off"
    /\ rsCall = NoCall
    /\ rsResult = NoDecision
    /\ rsTrace = NoTrace

ResetInit ==
    /\ memory \in {m \in SUBSET DocChoices : Cardinality(m) <= MaxDocs}
    /\ rsPc = "idle"
    /\ rsCall = NoCall
    /\ rsResult = NoDecision
    /\ rsTrace = NoTrace

\* one call of check_and_reset_if_needed and its effect on the collection (the
\* collection it starts from is any collection, so one call per behaviour
\* covers a call made in any state)
DoReset(call, agg_ok, del_ok) ==
    \E out \in check_and_reset_if_needed(memory, call.executive_id, call.available,
                                         call.required, call.days_threshold,
                                         call.reference_date, agg_ok, del_ok) :
        /\ memory' = out.memory
        /\ rsResult' = out.result
        /\ rsTrace' = out.trace
        /\ rsCall' = call
        /\ rsPc' = IF out.raised THEN "raised" ELSE "done"

\* routes.py analyze: count the executive's available clients, then call the
\* reset service with required_recommendations=3 and the request's current_date
RouteReset(executive_id) ==
    /\ rsPc = "idle"
    /\ \E agg_ok \in BOOLEAN, del_ok \in BOOLEAN :
          LET reference_date == [has_date |-> TRUE, day |-> RefDay]
              available == AvailableClients(memory, executive_id, reference_date,
                                            PrefilterDays)
          IN  DoReset([executive_id |-> executive_id,
                       available |-> Cardinality(available),
                       required |-> RequiredRecommendations,
                       days_threshold |-> PrefilterDays,
                       reference_date |-> reference_date,
                       from_route |-> TRUE], agg_ok, del_ok)
    /\ ResetFrame

\* a direct call with any available_clients list and required count
DirectReset(executive_id) ==
    /\ rsPc = "idle"
    /\ \E a \in 0..MaxAvailable, r \in 0..RequiredRecommendations,
          reference_date \in ReferenceChoices, agg_ok \in BOOLEAN, del_ok \in BOOLEAN :
          DoReset([executive_id |-> executive_id,
                   available |-> a,
                   required |-> r,
                   days_threshold |-> PrefilterDays,
                   reference_date |-> reference_date,
                   from_route |-> FALSE], agg_ok, del_ok)
    /\ ResetFrame

ResetNext ==
    \/ \E e \in Executives : RouteReset(e)
    \/ \E e \in Executives : DirectReset(e)

(***************************************************************************)
(* The check-then-store path (routes.py, analyze_with_memory)              *)
(*                                                                         *)
(* Parallel workers handle recommendations for the same (executive,        *)
(* client) pair.  Each worker fetches the history, checks its new          *)
(* recommendation against it and stores it unless should_filter is true.   *)
(* The fetch and the insert are the steps that touch storage; the          *)
(* embedding and the check between them are local to the worker.  The      *)
(* clock stays at SimNow during the burst.                                 *)
(***************************************************************************)
\* bounds of the path model
MaxWorkers == 2
MaxPathDocs == 1

\* limit=10 of the route's get_historical_recommendations call
RouteLimit == 10

Workers == 1..MaxWorkers

PathTexts == {"llamar", "visitar"}

\* two records of one pair with similar embeddings and timestamps less than
\* cooldown_days apart
CloseDuplicates(cfg, d1, d2) ==
    /\ d1.executive_id = d2.executive_id
    /\ d1.client_id = d2.client_id
    /\ is_similar(cfg, d1.embedding, d2.embedding).similar
    /\ d1.timestamp - d2.timestamp < cfg.cooldown_days * UnitsPerDay
    /\ d2.timestamp - d1.timestamp < cfg.cooldown_days * UnitsPerDay

NoCloseDuplicates(cfg, coll) ==
    \A i, j \in 1..Len(coll) : i < j => ~CloseDuplicates(cfg, coll[i], coll[j])

\* the records earlier requests left for executive E1
PathDocs(c) ==
    {Doc([executive_id |-> "E1", client_id |-> cl, recommendation_text |-> t,
          metadata |-> None], ts) :
        cl \in {"C1", "C2"}, t \in PathTexts, ts \in BoundaryTimestamps(c)}

\* a document as the query returns it to the similarity check
AsHistorical(d) ==
    [has_embedding |-> TRUE, embedding |-> d.embedding, has_timestamp |-> TRUE,
     timestamp_empty |-> FALSE, timestamp |-> d.timestamp]

\* new_rec = {"recommendation": rec_text, "embedding": new_embedding}
NewRec(text) == [recommendation |-> text, has_embedding |-> TRUE, embedding |-> Embedding(text)]

PathIdle ==
    /\ ptCfg = [threshold |-> <<17, 20>>, cooldown_days |-> 1]
    /\ ptCollection = <<>>
    /\ ptNew = <<>>
    /\ ptPc = <<>>
    /\ ptHist = <<>>
    /\ ptCheck = <<>>

PathInit ==
    /\ \E c \in 1..MaxCooldown :
          /\ ptCfg = [threshold |-> <<17, 20>>, cooldown_days |-> c]
          /\ ptCollection \in SeqsUpTo(PathDocs(c), MaxPathDocs)
    /\ NoCloseDuplicates(ptCfg, ptCollection)
    /\ ptNew \in [Workers -> PathTexts]
    /\ ptPc = [w \in Workers |-> "start"]
    /\ ptHist = [w \in Workers |-> <<>>]
    /\ ptCheck = [w \in Workers |-> NoCheck]

\* historical_recs = get_historical_recommendations(executive_id, client_id,
\* limit=10), then the embedding of the new text and
\* check_recommendation_similarity(new_rec, historical_recs)
FetchAndCheck(w) ==
    /\ ptPc[w] = "start"
    /\ \E ok \in BOOLEAN :
       \E out \in get_historical_recommendations(ptCollection, "E1", "C1", NoInt,
                                                  [given |-> TRUE, value |-> RouteLimit],
                                                  SimNow, ok) :
          IF out.kind = "list"
          THEN LET hist == [k \in 1..Len(out.records) |-> AsHistorical(out.records[k])]
                   c    == check_recommendation_similarity(ptCfg, NewRec(ptNew[w]), hist)
               IN  /\ ptHist' = [ptHist EXCEPT ![w] = hist]
                   /\ ptCheck' = [ptCheck EXCEPT ![w] = c]
                   /\ ptPc' = [ptPc EXCEPT ![w] = IF c.should_filter THEN "filtered"
                                                   ELSE "checked"]
          ELSE /\ ptPc' = [ptPc EXCEPT ![w] = "failed"]
               /\ UNCHANGED <<ptHist, ptCheck>>
    /\ UNCHANGED <<ptCfg, ptCollection, ptNew>>
    /\ PathFrame

\* store_recommendation(executive_id, client_id, rec_text, metadata): an
\* insert_one attempt succeeds
StoreChecked(w) ==
    /\ ptPc[w] = "checked"
    /\ ptCollection' = Append(ptCollection,
                              Doc([executive_id |-> "E1", client_id |-> "C1",
                                   recommendation_text |-> ptNew[w], metadata |-> None],
                                  SimNow))
    /\ ptPc' = [ptPc EXCEPT ![w] = "stored"]
    /\ UNCHANGED <<ptCfg, ptNew, ptHist, ptCheck>>
    /\ PathFrame

\* store_recommendation raises ConnectionError after its retries: nothing is written
StoreRaises(w) ==
    /\ ptPc[w] = "checked"
    /\ ptPc' = [ptPc EXCEPT ![w] = "failed"]
    /\ UNCHANGED <<ptCfg, ptCollection, ptNew, ptHist, ptCheck>>
    /\ PathFrame

PathNext ==
    \/ \E w \in Workers : FetchAndCheck(w)
    \/ \E w \in Workers : StoreChecked(w)
    \/ \E w \in Workers : StoreRaises(w)

(***************************************************************************)
(* Specifications                                                          *)
(***************************************************************************)
BatchSpecInit == BatchInit /\ DivideIdle /\ SimIdle /\ CosineIdle /\ StoreIdle /\ PathIdle /\ ResetIdle

DivideSpecInit == BatchIdle /\ DivideInit /\ SimIdle /\ CosineIdle /\ StoreIdle /\ PathIdle /\ ResetIdle

SimSpecInit == BatchIdle /\ DivideIdle /\ SimInit /\ CosineIdle /\ StoreIdle /\ PathIdle /\ ResetIdle

StoreSpecInit == BatchIdle /\ DivideIdle /\ SimIdle /\ CosineIdle /\ StoreInit /\ PathIdle /\ ResetIdle

ResetSpecInit == BatchIdle /\ DivideIdle /\ SimIdle /\ CosineIdle /\ StoreIdle /\ PathIdle /\ ResetInit

SpecBatch == BatchSpecInit /\ [][BatchNext]_vars

ConsolidateSpecInit == ConsolidateInit /\ DivideIdle /\ SimIdle /\ CosineIdle /\ StoreIdle /\ PathIdle /\ ResetIdle

\* The event loop runs every coroutine that is ready, and the semaphore wakes
\* its waiters in arrival order; every process_fn invocation eventually
\* returns or raises (the hypothesis under which termination is claimed).
BatchFairness ==
    /\ WF_vars(\E i \in Tasks : Acquire(i))
    /\ WF_vars(\E i \in Tasks : SeqStart(i))
    /\ \A i \in 1..MaxItems : WF_vars(i \in Tasks /\ (FnReturn(i) \/ FnRaise(i)))
    /\ WF_vars(\E i \in Tasks : CompleteTask(i))
    /\ WF_vars(\E i \in Tasks : SeqComplete(i))
    /\ WF_vars(GatherReturn)
    /\ WF_vars(SeqReturn)

SpecBatchFair == BatchSpecInit /\ [][RunNext]_vars /\ BatchFairness

SpecConsolidate == ConsolidateSpecInit /\ [][ConsolidateNext]_vars

SpecDivide == DivideSpecInit /\ [][DivideNext]_vars

SpecSim == SimSpecInit /\ [][SimNext]_vars

CosineSpecInit == BatchIdle /\ DivideIdle /\ SimIdle /\ CosineInit /\ StoreIdle /\ PathIdle /\ ResetIdle

SpecCosine == CosineSpecInit /\ [][CosineNext]_vars

SpecStore == StoreSpecInit /\ [][StoreNext]_vars

HistorySpecInit == BatchIdle /\ DivideIdle /\ SimIdle /\ CosineIdle /\ HistoryInit /\ PathIdle /\ ResetIdle

SpecHistory == HistorySpecInit /\ [][HistoryNext]_vars

SpecWorkers == HistorySpecInit /\ [][WorkersNext]_vars

SpecReset == ResetSpecInit /\ [][ResetNext]_vars

PathSpecInit ==
    BatchIdle /\ DivideIdle /\ SimIdle /\ CosineIdle /\ StoreIdle /\ PathInit /\ ResetIdle

SpecPath == PathSpecInit /\ [][PathNext]_vars

(***************************************************************************)
(* Properties of the BatchProcessor (checked under SpecBatch)              *)
(***************************************************************************)
Returned == mainPc \in {"returned", "consolidated"}

Raisers == {i \in Tasks : fnOutcome[i].kind = "raised"}

Returners == {i \in Tasks : fnOutcome[i].kind = "returned"}

\* C1: in parallel mode the number of batches whose process_fn has been started
\* and has not yet returned or raised never exceeds max_parallel_batches.
C1_InFlightBounded ==
    config.enable_parallel => Cardinality(InFlight) <= config.max_parallel_batches

\* more batches than permits: the gate is full, a batch has finished and
\* another one is still waiting for a permit
C1_Witness ==
    /\ mainPc = "running"
    /\ config.enable_parallel
    /\ NumBatches > config.max_parallel_batches
    /\ Cardinality(InFlight) = config.max_parallel_batches
    /\ \E i \in Tasks : pc[i] = "pending"
    /\ \E i \in Tasks : pc[i] = "done"

\* C2: a raising process_fn never makes process_batches_async raise: the
\* returned list has one BatchResult per batch, exactly the raising batches have
\* success = false with error = the exception text, every other batch has
\* success = true with the payload its process_fn returned; consolidate_results
\* then reports failed_batches = the number of raising batches and its data
\* holds the data of every other batch.
C2_FailureIsolation ==
    /\ mainPc \in {"off", "running", "returned", "consolidated"}
    /\ Returned =>
          /\ Len(results) = NumBatches
          /\ Raisers \cup Returners = Tasks
          /\ \A i \in Raisers :
                /\ results[i].success = FALSE
                /\ results[i].error = fnOutcome[i].error
          /\ \A i \in Returners :
                /\ results[i].success = TRUE
                /\ results[i].data = fnOutcome[i].payload
    /\ mainPc = "consolidated" =>
          /\ consolidated.metadata.failed_batches = Cardinality(Raisers)
          /\ \A i \in Returners :
                IF consolidated.via_consolidate_fn
                THEN fnOutcome[i].payload.kind # "none"
                        => \E k \in 1..Len(consolidated.data) :
                              consolidated.data[k] = fnOutcome[i].payload
                ELSE \A x \in Range(fnOutcome[i].payload.items) :
                        \E k \in 1..Len(consolidated.data) : consolidated.data[k] = x

\* one batch raised, another returned a non-empty list, and the results were
\* consolidated with the default rule
C2_Witness ==
    /\ mainPc = "consolidated"
    /\ ~consolidated.via_consolidate_fn
    /\ Raisers # {}
    /\ \E i \in Returners : fnOutcome[i].payload.kind = "list"
                              /\ Len(fnOutcome[i].payload.items) > 0
    /\ Len(consolidated.data) > 0

\* C3: process_fn is invoked exactly once per batch, with that batch's items
\* and its 1-indexed batch number, and the returned list has length N with
\* batch_num = i at position i, whatever the completion order.
C3_OncePerBatch ==
    /\ \A i \in Tasks :
          /\ Len(calls[i]) <= 1
          /\ pc[i] # "pending" => calls[i] = <<[items |-> batches[i], num |-> i]>>
    /\ Returned =>
          /\ Len(results) = NumBatches
          /\ \A i \in Tasks : Len(calls[i]) = 1 /\ results[i].batch_num = i

\* the call has returned after the second batch finished before the first
C3_Witness ==
    /\ mainPc = "returned"
    /\ config.enable_parallel
    /\ NumBatches >= 2
    /\ finishOrder[1] = 2
    /\ finishOrder[2] = 1

\* C23: every BatchResult produced by process_batches_async, in either mode,
\* has with success = true no error and as data the value process_fn
\* returned, and with success = false no data and as error the failure text.
C23_ResultShape ==
    \A k \in 1..Len(results) :
        LET r == results[k]
            i == r.batch_num
        IN  /\ i \in Tasks
            /\ r.success =>
                  /\ r.error = None
                  /\ fnOutcome[i].kind = "returned"
                  /\ r.data = fnOutcome[i].payload
            /\ ~r.success =>
                  /\ r.data = NonePayload
                  /\ fnOutcome[i].kind = "raised"
                  /\ r.error = fnOutcome[i].error
                  /\ r.error \in ErrorTexts

\* a parallel run has returned a successful result carrying a scalar and a
\* failed result
C23_Witness ==
    /\ mainPc = "returned"
    /\ config.enable_parallel
    /\ \E k \in 1..Len(results) : results[k].success /\ results[k].data.kind = "scalar"
    /\ \E k \in 1..Len(results) : ~results[k].success /\ results[k].error = "timeout"

\* the same in sequential mode, while the loop is still running
C23_WitnessSequential ==
    /\ mainPc = "running"
    /\ ~config.enable_parallel
    /\ \E k \in 1..Len(results) : results[k].success /\ results[k].data.kind = "list"
    /\ \E k \in 1..Len(results) : ~results[k].success

(***************************************************************************)
(* Properties of the SimilarityService (checked under SpecSim)             *)
(***************************************************************************)
\* the history positions check_recommendation_similarity can match: a record
\* with embedding and timestamp whose similarity to the new one reaches the threshold
Eligible(k) ==
    /\ history[k].has_embedding
    /\ history[k].has_timestamp
    /\ is_similar(simCfg, newRecs[1].embedding, history[k].embedding).similar

EligibleSet == {k \in 1..Len(history) : Eligible(k)}

\* elapsed time since the record, in units of 1/UnitsPerDay day
Elapsed(k) == SimNow - history[k].timestamp

\* elapsed days < cooldown_days, on the exact elapsed time
InsideCooldown(k) == Elapsed(k) < simCfg.cooldown_days * UnitsPerDay

\* C4: for a non-empty new_recommendations list filter_recommendations returns
\* a non-empty list whose items all carry status new, repeated_no_change or
\* forced; forced appears only when every input item was filtered, and then
\* the result is exactly the first input item tagged forced.
C4_ForcedSurvival ==
    (simPc = "filtered" /\ Len(newRecs) > 0 /\ ~filterOut.raised) =>
        LET out == filterOut.filtered
        IN  /\ Len(out) > 0
            /\ \A k \in 1..Len(out) :
                  out[k].status \in {"new", "repeated_no_change", "forced"}
            /\ (\E k \in 1..Len(out) : out[k].status = "forced") =>
                  /\ \A j \in 1..Len(newRecs) :
                        check_recommendation_similarity(simCfg, newRecs[j], history).should_filter
                  /\ Len(out) = 1
                  /\ out[1].recommendation = newRecs[1].recommendation
                  /\ out[1].embedding = newRecs[1].embedding
                  /\ out[1].status = "forced"

\* two new recommendations, both inside the cooldown of a similar record: the
\* first one is forced
C4_Witness ==
    /\ simPc = "filtered"
    /\ Len(newRecs) = 2
    /\ Len(filterOut.filtered) = 1
    /\ filterOut.filtered[1].status = "forced"
    /\ filterOut.filtered[1].recommendation = 1

Lacking(r) ==
    \/ ~r.has_embedding
    \/ Len(r.embedding) = 0
    \/ ~r.has_timestamp
    \/ r.timestamp_empty

\* the history with the records satisfying Drop removed
Without(hist, Drop(_)) == SelectSeq(hist, LAMBDA r : ~Drop(r))

\* C21: check_recommendation_similarity skips every historical record that
\* lacks an embedding or a timestamp (missing or empty) without raising, and
\* its result equals the result on the history with those records removed.
C21_SkipsLacking ==
    (simPc = "checked" /\ newRecs[1].has_embedding) =>
        /\ ~checkOut.raised
        /\ checkOut = check_recommendation_similarity(simCfg, newRecs[1],
                                                      Without(history, Lacking))

\* C22: filter_recommendations never raises when given a non-empty list of
\* new recommendations produced by the analysis flow and any stored history:
\* it always returns a list.
C22_NeverRaises ==
    (simPc = "filtered" /\ Len(newRecs) > 0) => ~filterOut.raised

CosineDefined ==
    /\ Len(csVec1) > 0
    /\ Len(csVec1) = Len(csVec2)
    /\ Dot(csVec1, csVec1) > 0
    /\ Dot(csVec2, csVec2) > 0

\* vec2 = k * vec1 for a positive integer k
PositiveMultiple ==
    \E k \in 1..MaxComponent : csVec2 = [i \in 1..Len(csVec1) |-> k * csVec1[i]]

\* symmetry, and the range [0, 1] with negative raw values clamped to 0
SymmetricInRange ==
    /\ ~csOut.raised
    /\ csOut = cosine_similarity(csVec2, csVec1)
    /\ FloatLeq(FloatZero, csOut.value)
    /\ FloatLeq(csOut.value, FloatOne)
    /\ Dot(csVec1, csVec2) < 0 => csOut.value = FloatZero

NearOne(a) ==
    /\ FloatLeq(a, FloatOne)
    /\ FloatLeq([m |-> FloatFull - 4, e |-> -FloatBits], a)

C24_WitnessClamped ==
    /\ csPc = "computed"
    /\ CosineDefined
    /\ Dot(csVec1, csVec2) < 0
    /\ csOut.value = FloatZero

(***************************************************************************)
(* Properties of the check-then-store path (checked under SpecPath)        *)
(***************************************************************************)
\* C25: across any sequence and any interleaving of parallel workers of the
\* check-then-store path, the store never holds, for one (executive, client)
\* pair, two records whose embeddings are similar (cosine >= threshold) and
\* whose timestamps are less than cooldown_days apart.
C25_NoCloseDuplicates == NoCloseDuplicates(ptCfg, ptCollection)

(***************************************************************************)
(* Properties of store_recommendation (checked under SpecStore)            *)
(***************************************************************************)
FailedInserts == {k \in 1..Len(stInserts) : stInserts[k] # "ok"}

\* C7: at most 3 insert attempts per call; the id of the first successful
\* insert is returned and no attempt follows it; failed attempt k (0-based,
\* k < 2) is followed by a wait of 2^k seconds and the last one by none;
\* ConnectionError is raised only after 3 failed attempts and carries the last
\* underlying error; the embedding is generated once, before the first attempt.
C7_RetryBudget ==
    /\ Len(stInserts) <= 3
    /\ \A k \in 1..Len(stInserts) : stInserts[k] = "ok" => k = Len(stInserts)
    /\ Len(stSleeps) <= 2
    /\ \A k \in 1..Len(stSleeps) : stSleeps[k] = 2 ^ (k - 1)
    /\ stPc = "insert" =>
          /\ Len(stSleeps) = Len(stInserts)
          /\ FailedInserts = 1..Len(stInserts)
          /\ stEmbedCalls = 1
    /\ stPc = "sleep" =>
          /\ Len(stSleeps) = Len(stInserts)
          /\ FailedInserts = 1..Len(stInserts)
          /\ stEmbedCalls = 1
    /\ stPc = "returned" =>
          /\ stInserts[Len(stInserts)] = "ok"
          /\ Len(stSleeps) = Len(stInserts) - 1
          /\ stResult.kind = "id"
          /\ stResult.id = Len(collection)
          /\ stEmbedCalls = 1
    /\ (stPc = "raised" /\ stResult.kind = "ConnectionError") =>
          /\ Len(stInserts) = 3
          /\ FailedInserts = 1..3
          /\ stSleeps = <<1, 2>>
          /\ stResult.cause = stInserts[3]
          /\ stEmbedCalls = 1
    /\ (stPc = "raised" /\ stResult.kind # "ConnectionError") => Len(stInserts) = 0

\* three failed attempts with waits of 1 s and 2 s, then ConnectionError
C7_Witness ==
    /\ stPc = "raised"
    /\ stResult.kind = "ConnectionError"
    /\ Len(stInserts) = 3
    /\ stSleeps = <<1, 2>>

(***************************************************************************)
(* Properties of the MemoryResetService (checked under SpecReset)          *)
(***************************************************************************)
\* C8: the action follows from the number a of available clients and the
\* required count r alone: a >= r gives none with clients_needed = 0,
\* embeddings_deleted = 0 and no storage read or delete; a = 0 < r gives
\* full_reset with clients_needed = r; 0 < a < r gives partial_reset with
\* clients_needed = r - a; both counts are never negative.
C8_ActionFromCounts ==
    rsPc = "done" =>
        LET a == rsCall.available
            r == rsCall.required
        IN  /\ a >= r =>
                  /\ rsResult.action = "none"
                  /\ rsResult.clients_needed = 0
                  /\ rsResult.embeddings_deleted = 0
                  /\ rsTrace.aggregates = 0
                  /\ rsTrace.deletes = 0
                  /\ memory = rsTrace.before
            /\ (a = 0 /\ a < r) =>
                  /\ rsResult.action = "full_reset"
                  /\ rsResult.clients_needed = r
            /\ (0 < a /\ a < r) =>
                  /\ rsResult.action = "partial_reset"
                  /\ rsResult.clients_needed = r - a
            /\ rsResult.clients_needed >= 0
            /\ rsResult.embeddings_deleted >= 0
            /\ rsResult.clients_available = a

\* a = 2, r = 3: a partial reset that needs one client and deletes a record
C8_Witness ==
    /\ rsPc = "done"
    /\ rsCall.available = 2
    /\ rsCall.required = 3
    /\ rsResult.action = "partial_reset"
    /\ rsResult.clients_needed = 1
    /\ rsResult.embeddings_deleted >= 1

\* C9: after check_and_reset_if_needed has returned for an executive whose
\* portfolio holds at least `required` clients, with the storage calls
\* succeeding, at least `required` of the executive's clients are available as
\* the route's count (date-only comparison) measures it.
C9_EnoughFreshClients ==
    (/\ rsPc = "done"
     /\ rsCall.from_route
     /\ ~rsTrace.failed
     /\ Cardinality(Portfolio) >= rsCall.required) =>
        Cardinality(AvailableClients(memory, rsCall.executive_id, rsCall.reference_date,
                                     rsCall.days_threshold)) >= rsCall.required

\* C10: a partial reset evicts the least recently recommended clients: of the
\* groups (one per client, keyed by the oldest in-window timestamp) the first
\* `needed` in ascending order (all when fewer exist) are evicted; no group
\* with a newer oldest timestamp is evicted while an older one is kept.
C10_OldestEvictedFirst ==
    (rsPc = "done" /\ rsResult.action = "partial_reset" /\ ~rsTrace.failed) =>
        LET G == Groups(rsTrace.before, rsCall.executive_id, rsCall.days_threshold,
                        rsCall.reference_date)
            evicted == {g \in G : DocsOf(memory, rsCall.executive_id, g.client_id) = {}}
        IN  /\ Cardinality(evicted) = Min(rsResult.clients_needed, Cardinality(G))
            /\ \A g \in evicted, h \in G \ evicted :
                  g.oldest_timestamp <= h.oldest_timestamp

C12_FailureSwallowed ==
    /\ rsPc \in {"idle", "done"}
    /\ (rsPc = "done" /\ rsTrace.failed) =>
          /\ rsResult.action \in {"full_reset", "partial_reset"}
          /\ rsResult.embeddings_deleted = 0
          /\ memory = rsTrace.before

\* a full reset whose delete_many raised although E1 had records to delete
C12_Witness ==
    /\ rsPc = "done"
    /\ rsTrace.failed
    /\ rsResult.action = "full_reset"
    /\ rsTrace.deletes = 1
    /\ \E d \in memory : d.executive_id = rsCall.executive_id

\* a partial reset whose aggregate read raised
C12_WitnessAggregate ==
    /\ rsPc = "done"
    /\ rsTrace.failed
    /\ rsResult.action = "partial_reset"
    /\ rsTrace.aggregates = 1
    /\ rsTrace.deletes = 0
    /\ \E d \in memory : d.executive_id = rsCall.executive_id

EvictedClients == {g.client_id : g \in Range(rsTrace.freed)}

\* the records of the evicted clients for the executive of the call
EvictedRecords ==
    {d \in rsTrace.before : d.executive_id = rsCall.executive_id
                             /\ d.client_id \in EvictedClients}

PartialResetEffect ==
    /\ memory = rsTrace.before \ EvictedRecords
    /\ Cardinality(EvictedClients) <= rsCall.required - rsCall.available
    /\ Len(rsTrace.freed) <= rsCall.required - rsCall.available

C27_WitnessOtherExecutive ==
    /\ rsPc = "done"
    /\ rsResult.action = "partial_reset"
    /\ ~rsTrace.failed
    /\ EvictedRecords # {}
    /\ \E d \in memory : d.executive_id # rsCall.executive_id
                           /\ d.client_id \in EvictedClients

(***************************************************************************)
(* Properties of the sequential mode (checked under SpecBatch)             *)
(***************************************************************************)
\* C16: with enable_parallel false the batches run strictly one after another
\* in batch-number order: batch k+1 is not started until batch k has returned
\* or raised, at most one batch is in flight at any time, and a failed batch
\* does not stop the later ones from running.
C16_SequentialOrder ==
    ~config.enable_parallel =>
        /\ Cardinality(InFlight) <= 1
        /\ \A i \in Tasks : pc[i] # "pending" =>
              \A j \in 1..(i - 1) : pc[j] \in {"finished", "done"}
        /\ finishOrder = [k \in 1..Len(finishOrder) |-> k]
        /\ \A k \in 1..Len(results) :
              /\ results[k].batch_num = k
              /\ (~results[k].success /\ k < NumBatches) =>
                    (pc[k + 1] = "pending" => (mainPc = "running" /\ seqIdx = k + 1))
        /\ mainPc # "running" =>
              /\ Len(results) = NumBatches
              /\ \A i \in Tasks : Len(calls[i]) = 1

\* a sequential run of two batches has returned: the first batch raised and
\* the second one still ran and succeeded
C16_Witness ==
    /\ ~config.enable_parallel
    /\ mainPc = "returned"
    /\ Len(results) = 2
    /\ ~results[1].success
    /\ results[2].success
    /\ finishOrder = <<1, 2>>

(***************************************************************************)
(* Properties of divide_into_batches (checked under SpecDivide)            *)
(***************************************************************************)
RECURSIVE Concat(_)
\* the concatenation of a list of lists
Concat(lists) ==
    IF Len(lists) = 0 THEN <<>> ELSE Head(lists) \o Concat(Tail(lists))

\* C14: with batch size s > 0, divide_into_batches splits a list of n items
\* into ceil(n / s) contiguous batches in input order: the concatenation of
\* the batches is the input list, every batch but the last has exactly s
\* items and the last has between 1 and s; 76 items with s = 5 give 16
\* batches, the last of length 1; the empty list gives no batch.
C14_DivideIntoBatches ==
    dvPc = "divided" =>
        LET n == Len(dvData)
            s == dvSize
            b == Len(dvBatches)
        IN  /\ b = (n + s - 1) \div s
            /\ Concat(dvBatches) = dvData
            /\ \A k \in 1..(b - 1) : Len(dvBatches[k]) = s
            /\ b > 0 => (1 <= Len(dvBatches[b]) /\ Len(dvBatches[b]) <= s)
            /\ (n = TestItems /\ s = 5) => (b = 16 /\ Len(dvBatches[16]) = 1)
            /\ n = 0 => dvBatches = <<>>

\* the 76 items of the test divided by 5
C14_Witness ==
    /\ dvPc = "divided"
    /\ Len(dvData) = TestItems
    /\ dvSize = 5
    /\ Len(dvBatches) = 16
    /\ dvBatches[16] = <<76>>

(***************************************************************************)
(* Properties of consolidate_results (checked under SpecConsolidate)       *)
(***************************************************************************)
\* what one payload adds to data under the default rule: the items of a list,
\* any other payload as one element (None is written 0 here)
Pieces(P) ==
    [k \in 1..Len(P) |->
        IF P[k].data.kind = "list" THEN P[k].data.items
        ELSE IF P[k].data.kind = "scalar" THEN <<P[k].data.items[1]>>
        ELSE <<0>>]

\* data holds the payloads of the results P, in order
DataHolds(P) ==
    IF consolidated.via_consolidate_fn
    THEN consolidated.data = [k \in 1..Len(P) |-> P[k].data]
    ELSE consolidated.data = Concat(Pieces(P))

\* the counts and failed_batch_numbers account for every result
CountsHold ==
    LET md == consolidated.metadata
        failed == SelectSeq(results, LAMBDA r : ~r.success)
    IN  /\ md.total_batches = Len(results)
        /\ md.total_batches = md.successful_batches + md.failed_batches
        /\ md.successful_batches = Cardinality({k \in 1..Len(results) : results[k].success})
        /\ md.failed_batches = Cardinality({k \in 1..Len(results) : ~results[k].success})
        /\ md.failed_batch_numbers = [k \in 1..Len(failed) |-> failed[k].batch_num]

\* C15 as stated: consolidate_results over any list of BatchResults reports
\* total_batches = len(results) = successful_batches + failed_batches,
\* failed_batch_numbers = the batch numbers of the failed results, and data
\* holding the payload of every successful result (a list flattened, any
\* other payload appended, or the list of payloads handed to consolidate_fn).
C15_NothingDropped ==
    mainPc = "consolidated" =>
        /\ CountsHold
        /\ DataHolds(SelectSeq(results, LAMBDA r : r.success))

\* C15 amended: the same, with data holding the payload of every successful
\* result whose payload is not None (a successful result with a None payload
\* is counted in successful_batches and adds nothing to data).
C15_NothingDroppedButNone ==
    mainPc = "consolidated" =>
        /\ CountsHold
        /\ DataHolds(SelectSeq(results, LAMBDA r : r.success /\ r.data.kind # "none"))

\* a failed result between a successful list payload and a successful scalar
\* payload is counted and its number reported, the two payloads are flattened
\* and appended
C15_Witness ==
    /\ mainPc = "consolidated"
    /\ ~consolidated.via_consolidate_fn
    /\ Len(results) = 2
    /\ results[1].success /\ results[1].data.kind = "list" /\ Len(results[1].data.items) = 2
    /\ ~results[2].success
    /\ consolidated.metadata.failed_batch_numbers = <<results[2].batch_num>>
    /\ Len(consolidated.data) = 2

(***************************************************************************)
(* Properties of a run followed by its consolidation (checked under        *)
(* SpecBatch)                                                              *)
(***************************************************************************)
\* the batches that hold a permit: inside `async with semaphore`
PermitHolders == {i \in Tasks : pc[i] \in {"running", "finished"}}

\* every permit is either free or held by a batch that has not left the gate,
\* and once the call has returned every batch is done and every permit free
PermitsAccounted ==
    /\ (config.enable_parallel /\ mainPc # "off") =>
          semaphore + Cardinality(PermitHolders) = config.max_parallel_batches
    /\ Returned =>
          /\ \A i \in Tasks : pc[i] = "done"
          /\ InFlight = {}
          /\ config.enable_parallel => semaphore = config.max_parallel_batches

\* C30: if every process_fn invocation eventually returns or raises,
\* process_batches_async eventually returns: every batch eventually acquires
\* a permit and starts (also when there are more batches than
\* max_parallel_batches), every permit is released when its batch finishes,
\* succeeded or failed, and at return no batch is in flight.
C30_Terminates ==
    /\ []PermitsAccounted
    /\ \A i \in 1..MaxItems :
          (i \in Tasks /\ pc[i] = "pending") ~> (i \in Tasks /\ pc[i] = "running")
    /\ <>Returned

\* more batches than permits, a batch failed, and the call has returned with
\* every permit free
C30_Witness ==
    /\ mainPc = "returned"
    /\ config.enable_parallel
    /\ NumBatches > config.max_parallel_batches
    /\ Raisers # {}
    /\ semaphore = config.max_parallel_batches
    /\ InFlight = {}

\* the list of BatchResults the outcomes of process_fn determine: position i
\* holds the result of batch i; neither the mode, nor max_parallel_batches,
\* nor the completion order enters it
OutcomeResults == [i \in Tasks |-> SingleBatchResult(BatchNumOf(i), fnOutcome[i])]

\* C29: for a process_fn whose outcome depends only on (batch items, batch
\* number, extra args), parallel mode and sequential mode return the same
\* list of BatchResults (batch_num, success, data, error), hence the same
\* consolidated data and failure counts, for every max_parallel_batches >= 1
\* and every interleaving: the list returned, and what is consolidated from
\* it, are a function of the per-batch outcomes alone.
C29_ModesEquivalent ==
    /\ Returned => results = OutcomeResults
    /\ mainPc = "consolidated" =>
          consolidated = consolidate_results(OutcomeResults, consolidated.via_consolidate_fn)

\* a parallel run with two permits whose second batch raised and finished
\* first has returned
C29_Witness ==
    /\ mainPc = "returned"
    /\ config.enable_parallel
    /\ config.max_parallel_batches = 2
    /\ NumBatches >= 2
    /\ finishOrder[1] = 2
    /\ fnOutcome[2].kind = "raised"
    /\ fnOutcome[1].kind = "returned"
    /\ results = OutcomeResults

\* a sequential run with the same outcomes has returned
C29_WitnessSequential ==
    /\ mainPc = "returned"
    /\ ~config.enable_parallel
    /\ NumBatches >= 2
    /\ fnOutcome[2].kind = "raised"
    /\ fnOutcome[1].kind = "returned"
    /\ results = OutcomeResults

\* the batch numbers 1..N, ascending, of the batches that satisfy Keep
Ascending(Keep(_)) == SelectSeq([i \in 1..NumBatches |-> i], Keep)

\* what a payload adds to the consolidated data: a list its items, any other
\* value itself, None nothing
Contribution(payload) ==
    IF payload.kind = "list" THEN payload.items
    ELSE IF payload.kind = "scalar" THEN <<payload.items[1]>>
    ELSE <<>>

\* C28: consolidation reports in batch-number order whatever order the
\* concurrent batches completed in: for the results of one
\* process_batches_async run, failed_batch_numbers is ascending and data is
\* the concatenation of the successful payloads in ascending batch number.
C28_BatchNumberOrder ==
    mainPc = "consolidated" =>
        LET failed == Ascending(LAMBDA i : fnOutcome[i].kind = "raised")
            good   == Ascending(LAMBDA i : fnOutcome[i].kind = "returned"
                                           /\ fnOutcome[i].payload.kind # "none")
            fbn    == consolidated.metadata.failed_batch_numbers
        IN  /\ fbn = failed
            /\ \A k \in 1..(Len(fbn) - 1) : fbn[k] < fbn[k + 1]
            /\ IF consolidated.via_consolidate_fn
               THEN consolidated.data = [k \in 1..Len(good) |-> fnOutcome[good[k]].payload]
               ELSE consolidated.data =
                      Concat([k \in 1..Len(good) |-> Contribution(fnOutcome[good[k]].payload)])

\* a parallel run of three batches: the first finished last, after the
\* third; the first and the third returned their items, and the default rule
\* put those of the first before those of the third
C28_Witness ==
    /\ mainPc = "consolidated"
    /\ config.enable_parallel
    /\ ~consolidated.via_consolidate_fn
    /\ NumBatches = 3
    /\ finishOrder = <<2, 3, 1>>
    /\ fnOutcome[1].payload.kind = "list"
    /\ fnOutcome[3].payload.kind = "list"
    /\ consolidated.data = batches[1] \o Contribution(fnOutcome[2].payload) \o batches[3]

\* two batches failed, the later one first: their numbers are reported ascending
C28_WitnessFailed ==
    /\ mainPc = "consolidated"
    /\ config.enable_parallel
    /\ NumBatches >= 2
    /\ finishOrder[1] = 2
    /\ finishOrder[2] = 1
    /\ consolidated.metadata.failed_batch_numbers = <<1, 2>>

(***************************************************************************)
(* Properties of get_historical_recommendations (checked under SpecHistory) *)
(***************************************************************************)
\* the records of the collection a call's identifiers select
Selected(executive_id, client_id) ==
    {k \in 1..Len(collection) : /\ collection[k].executive_id = executive_id
                                /\ collection[k].client_id = client_id}

\* C17: get_historical_recommendations(executive_id, client_id, days_back,
\* limit) returns only stored records whose executive_id and client_id both
\* equal the arguments, only records with timestamp >= now - days_back when
\* days_back is given, at most `limit` records when limit is given, and always
\* in descending timestamp order, whatever order storage listed them in.
C17_HistoryQuery ==
    (ghPc = "done" /\ ghOut.kind = "list") =>
        LET rs == ghOut.records
        IN  /\ \A k \in 1..Len(rs) :
                  /\ rs[k] \in Range(collection)
                  /\ rs[k].executive_id = ghCall.executive_id
                  /\ rs[k].client_id = ghCall.client_id
            /\ ghCall.days_back.given =>
                  \A k \in 1..Len(rs) :
                      rs[k].timestamp >= ghCall.now - ghCall.days_back.value * SecondsPerDay
            /\ ghCall.limit.given => Len(rs) <= ghCall.limit.value
            /\ \A k \in 1..(Len(rs) - 1) : rs[k].timestamp >= rs[k + 1].timestamp

\* a call with days_back = 1 returns two records of (E1, C1) newest first,
\* the older one stored exactly one day before the call
C17_Witness ==
    /\ ghPc = "done"
    /\ ghOut.kind = "list"
    /\ ghCall.days_back.given
    /\ Len(ghOut.records) = 2
    /\ ghOut.records[1].timestamp > ghOut.records[2].timestamp
    /\ ghOut.records[2].timestamp = ghCall.now - SecondsPerDay
    /\ ghOut.records[2] = collection[1]

\* a record of the pair that is older than days_back is left out
C17_WitnessCutoff ==
    /\ ghPc = "done"
    /\ ghOut.kind = "list"
    /\ ghCall.days_back.given
    /\ Cardinality(Selected(ghCall.executive_id, ghCall.client_id)) = 2
    /\ Len(ghOut.records) = 1

\* limit = 1 keeps one of the two records of the pair
C17_WitnessLimit ==
    /\ ghPc = "done"
    /\ ghOut.kind = "list"
    /\ ~ghCall.days_back.given
    /\ ghCall.limit.given
    /\ Cardinality(Selected(ghCall.executive_id, ghCall.client_id)) = 2
    /\ Len(ghOut.records) = 1

\* the other executive's record is in the collection and is not returned
C17_WitnessOtherExecutive ==
    /\ ghPc = "done"
    /\ ghOut.kind = "list"
    /\ Len(collection) = 2
    /\ \E k \in 1..2 : collection[k].executive_id = "E2"
    /\ Len(ghOut.records) = 1

\* the records of the collection that match the filter of the call made
Matching ==
    {k \in Selected(ghCall.executive_id, ghCall.client_id) :
        ghCall.days_back.given =>
            collection[k].timestamp >= ghCall.now - ghCall.days_back.value * SecondsPerDay}

\* C26: when get_historical_recommendations is called with limit = L and more
\* than L records match the (executive, client) filter, the L records
\* returned are the L most recent ones, so the newest stored recommendation
\* is among them (it is the first).
C26_NewestKept ==
    (/\ ghPc = "done"
     /\ ghOut.kind = "list"
     /\ ghCall.limit.given
     /\ Cardinality(Matching) > ghCall.limit.value) =>
        LET rs == ghOut.records
        IN  /\ Len(rs) = ghCall.limit.value
            /\ \A k \in Matching :
                  Cardinality({j \in 1..Len(rs) : rs[j].timestamp >= collection[k].timestamp})
                    = Min(ghCall.limit.value,
                          Cardinality({h \in Matching :
                                         collection[h].timestamp >= collection[k].timestamp}))
            /\ \A k \in Matching : rs[1].timestamp >= collection[k].timestamp

\* C18: round trip.  After store_recommendation(e, c, text, metadata) has
\* returned, get_historical_recommendations(e, c) with neither days_back nor
\* limit returns a list containing a record with that text, that metadata
\* (an absent metadata is stored as {}) and the embedding produced for that
\* text; all the records stored for (e, c) are returned, newest first.
C18_RoundTrip ==
    (/\ ghPc = "done"
     /\ ghOut.kind = "list"
     /\ ~ghCall.days_back.given
     /\ ~ghCall.limit.given) =>
        LET rs == ghOut.records
            mine == Selected(ghCall.executive_id, ghCall.client_id)
        IN  /\ (/\ stPc = "returned"
                 /\ stArgs.executive_id = ghCall.executive_id
                 /\ stArgs.client_id = ghCall.client_id) =>
                   \E k \in 1..Len(rs) :
                       /\ rs[k].recommendation = stArgs.recommendation_text
                       /\ rs[k].metadata = IF stArgs.metadata = None THEN "{}"
                                           ELSE stArgs.metadata
                       /\ rs[k].embedding = Embedding(stArgs.recommendation_text)
                       /\ rs[k].timestamp <= ghCall.now
            /\ Len(rs) = Cardinality(mine)
            /\ \A k \in mine : collection[k] \in Range(rs)
            /\ \A k \in 1..(Len(rs) - 1) : rs[k].timestamp >= rs[k + 1].timestamp

\* a store with metadata returned and the retrieval that follows lists its
\* record first, before the pair's earlier record
C18_Witness ==
    /\ ghPc = "done"
    /\ ghOut.kind = "list"
    /\ ~ghCall.days_back.given
    /\ ~ghCall.limit.given
    /\ stPc = "returned"
    /\ stArgs.metadata = "prioridad"
    /\ stArgs.executive_id = ghCall.executive_id
    /\ stArgs.client_id = ghCall.client_id
    /\ Len(ghOut.records) = 2
    /\ ghOut.records[1] = stDoc
    /\ ghOut.records[2] = collection[1]

\* the arguments store_recommendation rejects
InvalidStoreArgs(args) ==
    \/ args.executive_id = ""
    \/ args.client_id = ""
    \/ args.recommendation_text \in {"", " "}

\* the arguments get_historical_recommendations rejects
InvalidGetArgs(call) ==
    \/ call.executive_id = ""
    \/ call.client_id = ""
    \/ (call.days_back.given /\ call.days_back.value <= 0)
    \/ (call.limit.given /\ call.limit.value <= 0)

\* C19: validation errors are raised at once and never retried:
\* store_recommendation with an empty executive_id, an empty client_id or an
\* empty or blank text, and get_historical_recommendations with an empty id or
\* a non-positive days_back or limit, raise ValueError before any embedding is
\* generated and before any insert or query reaches storage, and leave the
\* store unchanged.
C19_ValidationFirst ==
    [][/\ (stPc' # "idle" /\ InvalidStoreArgs(stArgs')) =>
             /\ stPc' = "raised"
             /\ stResult'.kind = "ValueError"
             /\ stEmbedCalls' = 0
             /\ stInserts' = <<>>
             /\ stSleeps' = <<>>
             /\ collection' = collection
       /\ (ghPc' = "done" /\ InvalidGetArgs(ghCall')) =>
             /\ ghOut'.kind = "ValueError"
             /\ ghOut'.queries = 0
             /\ collection' = collection]_vars

\* a store call with a blank text has raised ValueError with a record of an
\* earlier call in the collection
C19_Witness ==
    /\ stPc = "raised"
    /\ stArgs.executive_id = "E1"
    /\ stArgs.client_id = "C1"
    /\ stArgs.recommendation_text = " "
    /\ stResult.kind = "ValueError"
    /\ Len(collection) = 1

\* a retrieval with limit = 0 has raised ValueError without a query
C19_WitnessGet ==
    /\ ghPc = "done"
    /\ ghCall.executive_id = "E1"
    /\ ghCall.client_id = "C1"
    /\ ~ghCall.days_back.given
    /\ ghCall.limit.given
    /\ ghCall.limit.value = 0
    /\ ghOut.kind = "ValueError"
    /\ Len(collection) = 1

(***************************************************************************)
(* Properties of concurrent stores (checked under SpecWorkers)             *)
(***************************************************************************)
\* what a store_recommendation call keeps to itself
callVars == <<stPc, stArgs, stAttempt, stInserts, stSleeps, stEmbedCalls, stResult,
              stCalls, stNow, stDoc>>

\* C20: the store is append-only and concurrent stores are safe: under any
\* interleaving of the store_recommendation calls of parallel workers, no step
\* modifies or removes an existing record, the call that returns an id has
\* added exactly one new record (the step that returns appends its document,
\* its other steps add nothing), and that record stays where the id points
\* whatever the other workers insert.
C20_AppendOnly ==
    [][/\ Len(collection') \in {Len(collection), Len(collection) + 1}
       /\ SubSeq(collection', 1, Len(collection)) = collection
       /\ (stPc' = "returned" /\ stPc # "returned") =>
             /\ collection' = Append(collection, stDoc)
             /\ stResult'.kind = "id"
       /\ (callVars' # callVars /\ ~(stPc' = "returned" /\ stPc # "returned")) =>
             collection' = collection
       /\ stPc' = "returned" => collection'[stResult'.id] = stDoc']_vars

\* this call's record went in between two records of other workers, after one
\* failed attempt, and is still where its id points
C20_Witness ==
    /\ stPc = "returned"
    /\ Len(stInserts) = 2
    /\ Len(collection) = 3
    /\ collection[1] = OtherDoc
    /\ collection[2] = stDoc
    /\ collection[3] = OtherDoc
    /\ stResult.id = 2

====
